---- MODULE Spec2Model ----
(***************************************************************************)
(* A model of minigit: the lock-file discipline, the staging index, the    *)
(* object database and the add / commit / status commands, run by several  *)
(* concurrent invocations over one repository.                             *)
(*                                                                         *)
(* A path is a sequence of one-character strings ("/" separates the        *)
(* components).  A file is a record [exists, data]; the data of the index  *)
(* file is the sequence of the chunks written to it, the data of HEAD the  *)
(* sequence holding the OID written to it.  SHA-1 is modelled as an        *)
(* injective function: the digest of a buffer is a record wrapping it.     *)
(***************************************************************************)
EXTENDS Integers, Sequences, FiniteSets, TLC

(* ------------------------------ bounds --------------------------------- *)

\* Invocations started over a behaviour of Spec.
MaxRuns == 2

\* The concurrent invocations.
Procs == {1, 2}

(* ------------------------------- paths --------------------------------- *)

Sep == "/"

CharCode(c) ==
    CASE c = "-" -> 45
      [] c = "." -> 46
      [] c = "/" -> 47
      [] c = "a" -> 97
      [] c = "b" -> 98
      [] c = "c" -> 99
      [] c = "d" -> 100
      [] c = "x" -> 120
      [] c = "D" -> 68
      [] c = "S" -> 83
      [] c = "_" -> 95
      [] c = "e" -> 101
      [] c = "f" -> 102
      [] c = "g" -> 103
      [] c = "i" -> 105
      [] c = "l" -> 108
      [] c = "m" -> 109
      [] c = "o" -> 111
      [] c = "r" -> 114
      [] c = "t" -> 116
      [] c = "w" -> 119

Min(a, b) == IF a < b THEN a ELSE b

\* The order of String (byte-wise), which is the order of the BTreeMap keys.
StrLess(a, b) ==
    \E i \in 1..(Min(Len(a), Len(b)) + 1) :
        /\ \A j \in 1..(i - 1) : a[j] = b[j]
        /\ \/ i = Len(a) + 1 /\ i <= Len(b)
           \/ i <= Len(a) /\ i <= Len(b) /\ CharCode(a[i]) < CharCode(b[i])

\* Path::parent of a relative path without trailing separator.
SlashPositions(path) == {i \in 1..Len(path) : path[i] = Sep}

Max(S) == CHOOSE m \in S : \A n \in S : n <= m

PathParent(path) ==
    IF SlashPositions(path) = {} THEN <<>>
    ELSE SubSeq(path, 1, Max(SlashPositions(path)) - 1)

\* Path::file_name
FileName(path) ==
    IF SlashPositions(path) = {} THEN path
    ELSE SubSeq(path, Max(SlashPositions(path)) + 1, Len(path))

\* Path::ancestors: the path itself, its parent, ..., the empty path.
RECURSIVE PathAncestors(_)
PathAncestors(path) ==
    IF path = <<>> THEN <<path>>
    ELSE <<path>> \o PathAncestors(PathParent(path))

Range(s) == {s[i] : i \in 1..Len(s)}

\* a is a proper directory-prefix of b
IsProperAncestor(a, b) ==
    /\ a # <<>>
    /\ Len(a) < Len(b)
    /\ SubSeq(b, 1, Len(a)) = a
    /\ b[Len(a) + 1] = Sep

\* Path::components of a relative path
RECURSIVE PathComponents(_)
PathComponents(path) ==
    IF path = <<>> THEN <<>>
    ELSE IF SlashPositions(path) = {} THEN <<path>>
    ELSE LET i == CHOOSE k \in SlashPositions(path) :
                      \A m \in SlashPositions(path) : k <= m
         IN <<SubSeq(path, 1, i - 1)>> \o PathComponents(SubSeq(path, i + 1, Len(path)))

(* --------------------------- object database --------------------------- *)

\* Sha1::result_str of a buffer
Sha1Hex(buffer) == [sha1 |-> buffer]

\* Database::store, mutated: the length of the payload is left out of the buffer
ObjectBufferNoLength(type, payload) == [kind |-> type, len |-> 0, payload |-> payload]

\* Database::store builds type + " " + len + NUL + payload
ObjectBuffer(type, payload) == [kind |-> type, len |-> Len(payload), payload |-> payload]

ObjectOid(type, payload) == Sha1Hex(ObjectBuffer(type, payload))

\* Blob: the payload is the content of the file
BlobPayload(data) == [i \in 1..Len(data) |-> [byte |-> data[i]]]

\* Database::write_object, mutated: reports success without writing the file
WriteObjectSkipped(objs, oid, content) == objs

\* Database::write_object: the object file is written (through a temporary
\* file renamed onto it) unless it already exists.
WriteObject(objs, oid, content) ==
    IF oid \in DOMAIN objs THEN objs ELSE objs @@ (oid :> content)

\* Database::store: sets the OID of the object, then writes it
DatabaseStore(objs, type, payload) ==
    [oid |-> ObjectOid(type, payload),
     objects |-> WriteObject(objs, ObjectOid(type, payload), ObjectBuffer(type, payload))]

(* -------------------------------- entries ------------------------------ *)

\* Workspace::_get_metadata: the mode is canonicalised on the owner-execute bit
FileMode(stat) == IF stat.exec THEN 33261 ELSE 33188

GetMetadata(stat) ==
    [ctime |-> stat.ctime, ctime_nsec |-> 0, mtime |-> stat.mtime, mtime_nsec |-> 0,
     dev |-> stat.dev, ino |-> stat.ino, mode |-> FileMode(stat),
     uid |-> stat.uid, gid |-> stat.gid, size |-> stat.size]

\* Entry::new, mutated: the length is masked to twelve bits, not clamped
EntryNewFlagsMasked(path, oid, metadata) ==
    [path |-> path, oid |-> oid, metadata |-> metadata, flags |-> Len(path) % 4096]

\* Entry::new
EntryNew(path, oid, metadata) ==
    [path |-> path, oid |-> oid, metadata |-> metadata, flags |-> Min(Len(path), 4095)]

\* Entry::get_data: 62 fixed bytes, the path, one NUL, then NULs up to a multiple of 8
EntryPadding(n) == 1 + ((8 - ((63 + n) % 8)) % 8)

EntryGetData(e) ==
    [metadata |-> e.metadata, oid |-> e.oid, flags |-> e.flags, path |-> e.path,
     padding |-> EntryPadding(Len(e.path))]

(* --------------------------------- index ------------------------------- *)

EmptyMap == <<>>

NewIndex == [entries |-> EmptyMap, parents |-> EmptyMap, lockfile |-> TRUE, changed |-> FALSE]

ProperAncestors(path) == Range(Tail(PathAncestors(path)))

\* Index::insert_entry
InsertEntry(ix, e) ==
    LET ancs == ProperAncestors(e.path)
        keys == DOMAIN ix.parents \cup ancs
    IN [ix EXCEPT
          !.parents = [k \in keys |->
                         (IF k \in DOMAIN ix.parents THEN ix.parents[k] ELSE {})
                           \cup (IF k \in ancs THEN {e.path} ELSE {})],
          !.entries = [k \in DOMAIN ix.entries \cup {e.path} |->
                         IF k = e.path THEN e ELSE ix.entries[k]]]

\* Index::discard_conflicts, mutated: the entries under the added path are kept
DiscardConflictsKeepChildren(ix, e) ==
    LET gone == {a \in Range(PathAncestors(e.path)) : a # <<>>}
    IN [ix EXCEPT !.entries = [k \in DOMAIN ix.entries \ gone |-> ix.entries[k]]]

\* Index::discard_conflicts
DiscardConflicts(ix, e) ==
    LET ancestors == {a \in Range(PathAncestors(e.path)) : a # <<>>}
        children == IF e.path \in DOMAIN ix.parents THEN ix.parents[e.path] ELSE {}
        gone == ancestors \cup children
    IN [ix EXCEPT
          !.entries = [k \in DOMAIN ix.entries \ gone |-> ix.entries[k]],
          !.parents = [k \in DOMAIN ix.parents |->
                         IF k = e.path THEN {} ELSE ix.parents[k]]]

\* Index::add, mutated: the conflicting entries are not discarded
IndexAddNoDiscard(ix, path, oid, metadata) ==
    [InsertEntry(ix, EntryNew(path, oid, metadata)) EXCEPT !.changed = TRUE]

\* Index::add
IndexAdd(ix, path, oid, metadata) ==
    LET e == EntryNew(path, oid, metadata)
    IN [InsertEntry(DiscardConflicts(ix, e), e) EXCEPT !.changed = TRUE]

\* Index::clear
IndexClear(ix) == [ix EXCEPT !.entries = EmptyMap, !.changed = FALSE]

\* Index::is_path_tracked
IsPathTracked(ix, path) == path \in DOMAIN ix.entries \/ path \in DOMAIN ix.parents

\* The keys of a BTreeMap in iteration order
RECURSIVE SortedPaths(_)
SortedPaths(S) ==
    IF S = {} THEN <<>>
    ELSE LET m == CHOOSE x \in S : \A y \in S \ {x} : StrLess(x, y)
         IN <<m>> \o SortedPaths(S \ {m})

\* The entries of the index, mutated: yielded from the last key to the first
IndexEntriesReversed(ix) ==
    LET keys == SortedPaths(DOMAIN ix.entries)
    IN [i \in 1..Len(keys) |-> ix.entries[keys[Len(keys) + 1 - i]]]

\* The entries of the index in iteration order
IndexEntries(ix) ==
    LET keys == SortedPaths(DOMAIN ix.entries)
    IN [i \in 1..Len(keys) |-> ix.entries[keys[i]]]

(* ----------------------------- index file ------------------------------ *)

SigChunk(s) == [sig |-> s]
U32Chunk(n) == [u32 |-> n]
EntryChunk(e) == [entry |-> EntryGetData(e)]
ShaChunk(prefix) == [sha |-> Sha1Hex(prefix)]

IsSig(c) == DOMAIN c = {"sig"}
IsU32(c) == DOMAIN c = {"u32"}
IsEntry(c) == DOMAIN c = {"entry"}
IsSha(c) == DOMAIN c = {"sha"}

\* Index::write_updates: what is written before the trailer, in order
IndexBody(ix) ==
    <<SigChunk("DIRC"), U32Chunk(2), U32Chunk(Cardinality(DOMAIN ix.entries))>>
      \o [i \in 1..Len(IndexEntries(ix)) |-> EntryChunk(IndexEntries(ix)[i])]

\* Index::write_updates: every write made through the lock file, in order
IndexWrites(ix) == IndexBody(ix) \o <<ShaChunk(IndexBody(ix))>>

ErrTooShort == "fatal: index was shorter than expected"
ErrCorrupt == "fatal: index file corrupt"
ErrSignature == "Index signature: expected 'DIRC'"
ErrVersion == "Index version: expected 2"

\* Index::read_entry
ReadEntry(c) == EntryNew(c.entry.path, c.entry.oid, c.entry.metadata)

\* Index::load_for_update on the data of an existing index file: the error, or
\* the index with the entries inserted one by one.
RECURSIVE LoadEntries(_, _, _, _)
LoadEntries(ix, data, offset, count) ==
    IF count = 0 THEN [err |-> "", index |-> ix, offset |-> offset]
    ELSE IF Len(data) < offset THEN [err |-> ErrTooShort, index |-> ix, offset |-> offset]
    ELSE IF ~IsEntry(data[offset]) THEN [err |-> ErrTooShort, index |-> ix, offset |-> offset]
    ELSE LoadEntries(InsertEntry(ix, ReadEntry(data[offset])), data, offset + 1, count - 1)

\* Index::verify_hash
VerifyHash(offset, data) ==
    IF Len(data) < offset THEN ErrTooShort
    ELSE IF data[Len(data)] = ShaChunk(SubSeq(data, 1, Len(data) - 1)) THEN ""
    ELSE ErrCorrupt

\* Index::read_header
ReadHeader(data) ==
    IF Len(data) < 1 THEN [err |-> ErrTooShort, count |-> 0]
    ELSE IF data[1] # SigChunk("DIRC") THEN [err |-> ErrSignature, count |-> 0]
    ELSE IF Len(data) < 2 THEN [err |-> ErrTooShort, count |-> 0]
    ELSE IF data[2] # U32Chunk(2) THEN [err |-> ErrVersion, count |-> 0]
    ELSE IF Len(data) < 3 THEN [err |-> ErrTooShort, count |-> 0]
    ELSE [err |-> "", count |-> data[3].u32]

LoadData(ix, data) ==
    LET header == ReadHeader(data)
        loaded == LoadEntries(IndexClear(ix), data, 4, header.count)
    IN IF header.err # "" THEN [err |-> header.err, index |-> IndexClear(ix)]
       ELSE IF loaded.err # "" THEN [err |-> loaded.err, index |-> loaded.index]
       ELSE [err |-> VerifyHash(loaded.offset, data), index |-> loaded.index]

(* ------------------------------ lock file ------------------------------ *)

Absent == [exists |-> FALSE, data |-> <<>>]
EmptyFile == [exists |-> TRUE, data |-> <<>>]

\* PathBuf::with_extension("lock")
LockPath(target) == IF target = "index" THEN "index.lock" ELSE "HEAD.lock"

\* Lockfile::new, mutated: the lock file is opened with create, not create_new
LockfileNewNotExclusive(fs, target) ==
    [ok |-> TRUE, files |-> [fs EXCEPT ![LockPath(target)] = EmptyFile]]

\* Lockfile::new: create_new succeeds only when the lock file does not exist
LockfileNew(fs, target) ==
    IF fs[LockPath(target)].exists
    THEN [ok |-> FALSE, files |-> fs]
    ELSE [ok |-> TRUE, files |-> [fs EXCEPT ![LockPath(target)] = EmptyFile]]

\* Lockfile::write, mutated: the bytes are appended to the target
LockfileWriteToTarget(fs, target, value) ==
    [fs EXCEPT ![target] = [exists |-> TRUE, data |-> fs[target].data \o <<value>>]]

\* Lockfile::write: the bytes are appended to the lock file
LockfileWrite(fs, target, value) ==
    [fs EXCEPT ![LockPath(target)] = [exists |-> TRUE, data |-> @.data \o <<value>>]]

\* Lockfile::commit when the rename succeeds
LockfileCommit(fs, target) ==
    [fs EXCEPT ![target] = fs[LockPath(target)], ![LockPath(target)] = Absent]

\* Drop for Lockfile, mutated: what was written so far is published
LockfileDropPublishes(fs, target, commit_has_been_called) ==
    IF ~commit_has_been_called THEN LockfileCommit(fs, target) ELSE fs

\* Drop for Lockfile: the lock file is deleted unless commit has been called
\* (remove_file is taken to succeed).
LockfileDrop(fs, target, commit_has_been_called) ==
    IF ~commit_has_been_called
    THEN [fs EXCEPT ![LockPath(target)] = Absent]
    ELSE fs

(* --------------------------------- refs -------------------------------- *)

NoneOid == [some |-> FALSE, v |-> <<>>]
SomeOid(v) == [some |-> TRUE, v |-> v]

\* Refs::read_head, mutated: the content of HEAD is not returned
ReadHeadNone(fs) == NoneOid

\* Refs::read_head when the read succeeds
ReadHead(fs) == IF ~fs["HEAD"].exists THEN NoneOid ELSE SomeOid(fs["HEAD"].data)

(* --------------------------------- trees ------------------------------- *)

\* format!("{:o}", mode): the octal digits of a number
RECURSIVE OctalDigits(_)
OctalDigits(n) == IF n < 8 THEN <<n>> ELSE OctalDigits(n \div 8) \o <<n % 8>>

\* Tree::new
TreeNew(name) == [kind |-> "tree", name |-> name, entries |-> <<>>, panicked |-> FALSE]

\* An Entry boxed as a TreeOrEntry; its name is Entry::get_name
TreeLeaf(e) == [kind |-> "leaf", name |-> FileName(e.path), entry |-> e]

\* TreeOrEntry for Tree::add_entry, mutated: the last child is never reused
RECURSIVE TreeAddEntryNoReuse(_, _, _)
TreeAddEntryNoReuse(tree, components, entry) ==
    IF components = <<>>
    THEN [tree EXCEPT !.entries = Append(@, TreeLeaf(entry))]
    ELSE [tree EXCEPT !.entries =
            Append(@, TreeAddEntryNoReuse(TreeNew(Head(components)), Tail(components), entry))]

\* TreeOrEntry for Tree::add_entry; panicked records that add_entry of an
\* Entry was reached.
RECURSIVE TreeAddEntry(_, _, _)
TreeAddEntry(tree, components, entry) ==
    IF components = <<>>
    THEN [tree EXCEPT !.entries = Append(@, TreeLeaf(entry))]
    ELSE LET dir_name == Head(components)
             rest == Tail(components)
             n == Len(tree.entries)
         IN IF n > 0 /\ tree.entries[n].name = dir_name
            THEN IF tree.entries[n].kind = "leaf"
                 THEN [tree EXCEPT !.panicked = TRUE]
                 ELSE LET sub == TreeAddEntry(tree.entries[n], rest, entry)
                      IN [tree EXCEPT !.entries[n] = sub,
                                      !.panicked = sub.panicked]
            ELSE LET sub == TreeAddEntry(TreeNew(dir_name), rest, entry)
                 IN [tree EXCEPT !.entries = Append(@, sub),
                                 !.panicked = sub.panicked]

\* Tree::build
RECURSIVE TreeBuildFrom(_, _, _)
TreeBuildFrom(root, entries, i) ==
    IF i > Len(entries) \/ root.panicked THEN root
    ELSE TreeBuildFrom(
           TreeAddEntry(root, PathComponents(PathParent(entries[i].path)), entries[i]),
           entries, i + 1)

RootName == <<"r", "o", "o", "t">>

TreeBuild(entries) == TreeBuildFrom(TreeNew(RootName), entries, 1)

\* TreeOrEntry::get_mode
NodeMode(node) == IF node.kind = "tree" THEN 40000 ELSE node.entry.metadata.mode

\* Tree::traverse_private: the payloads handed to Database::store, in order,
\* and the OID the tree gets.
RECURSIVE TreeTraverse(_)
RECURSIVE TraverseChildren(_, _, _)
TraverseChildren(entries, i, acc) ==
    IF i > Len(entries) THEN acc
    ELSE LET node == entries[i]
             sub == IF node.kind = "tree" THEN TreeTraverse(node)
                    ELSE [oid |-> node.entry.oid, stores |-> <<>>]
             line == [mode |-> OctalDigits(NodeMode(node)), name |-> node.name, oid |-> sub.oid]
         IN TraverseChildren(entries, i + 1,
              [data |-> Append(acc.data, line), stores |-> acc.stores \o sub.stores])

TreeTraverse(tree) ==
    LET children == TraverseChildren(tree.entries, 1, [data |-> <<>>, stores |-> <<>>])
    IN [oid |-> ObjectOid("tree", children.data),
        stores |-> Append(children.stores, children.data)]

(* -------------------------------- commits ------------------------------ *)

\* Author::to_string of the one author and clock of the model
AuthorIdent == "A <a@example.org> 0 +0000"

\* Commit::build_data
CommitPayload(parent, message, tree_oid) ==
    <<[tree |-> tree_oid, parent |-> parent, author |-> AuthorIdent,
       committer |-> AuthorIdent, message |-> message]>>

\* commit_message.lines().next() is None exactly for the empty message
FirstLineExists(message) == message # ""

(* ------------------------------- workspace ----------------------------- *)

FileStat(n, exec) ==
    [ctime |-> n, mtime |-> n, dev |-> 1, ino |-> n, exec |-> exec,
     uid |-> 1000, gid |-> 1000, size |-> 1]

pA == <<"a">>
pD == <<"d">>
pDB == <<"d", "/", "b">>
pX == <<"x">>
pRoot == <<>>

\* The files of the workspace: content and stat
WorkspaceFiles ==
    (pA :> [data |-> <<1>>, stat |-> FileStat(1, FALSE)])
      @@ (pDB :> [data |-> <<2>>, stat |-> FileStat(2, TRUE)])

WorkspaceDirs == {pRoot, pD}

PathExists(path) == path \in DOMAIN WorkspaceFiles \/ path \in WorkspaceDirs

DirChildren(dir) ==
    {q \in (DOMAIN WorkspaceFiles \cup WorkspaceDirs) \ {pRoot} : PathParent(q) = dir}

\* Workspace::is_dir_ignored
IsDirIgnored(path) ==
    FileName(path) \in {<<".", "g", "i", "t">>, <<"t", "a", "r", "g", "e", "t">>}

\* Path::extension of a file name
DotPositions(name) == {i \in 2..Len(name) : name[i] = "."}

Extension(name) ==
    IF DotPositions(name) = {} THEN <<>>
    ELSE SubSeq(name, Max(DotPositions(name)) + 1, Len(name))

\* Workspace::is_file_ignored
IsFileIgnored(path) ==
    \/ FileName(path) = <<".", "D", "S", "_", "S", "t", "o", "r", "e">>
    \/ Extension(FileName(path)) = <<"i", "m", "l">>

\* The orders in which read_dir may yield the members of a set
RECURSIVE Orders(_)
Orders(S) ==
    IF S = {} THEN {<<>>}
    ELSE UNION {{<<x>> \o rest : rest \in Orders(S \ {x})} : x \in S}

\* Workspace::list_files_recurse: the possible results, one per order of read_dir
RECURSIVE ListFilesRecurse(_)
RECURSIVE ListFilesOver(_)
ListFilesOver(children) ==
    IF children = <<>> THEN {<<>>}
    ELSE {first \o rest : first \in ListFilesRecurse(Head(children)),
                          rest \in ListFilesOver(Tail(children))}

ListFilesRecurse(path) ==
    IF path \in DOMAIN WorkspaceFiles /\ ~IsFileIgnored(path) THEN {<<path>>}
    ELSE IF path \in WorkspaceDirs /\ ~IsDirIgnored(path)
    THEN UNION {ListFilesOver(order) : order \in Orders(DirChildren(path))}
    ELSE {<<>>}

\* AddCommand::execute, the loop over the pathspecs: the possible lists of files
RECURSIVE ListAll(_)
ListAll(args) ==
    IF args = <<>> THEN {<<>>}
    ELSE {first \o rest : first \in ListFilesRecurse(Head(args)), rest \in ListAll(Tail(args))}

\* The pathspecs that Workspace::normalize_path rejects, mutated: only the
\* first pathspec is resolved before the files are stored
MissingArgsFirstOnly(args) == {i \in 1..Min(1, Len(args)) : ~PathExists(args[i])}

\* The pathspecs that Workspace::normalize_path rejects; the loop of
\* AddCommand::execute returns on the first of them
MissingArgs(args) == {i \in 1..Len(args) : ~PathExists(args[i])}

FirstMissing(args) == args[CHOOSE i \in MissingArgs(args) : \A j \in MissingArgs(args) : i <= j]

(* --------------------------------- state ------------------------------- *)

VARIABLES
    files,      \* .git/index, .git/index.lock, .git/HEAD, .git/HEAD.lock
    objects,    \* .git/objects: OID -> the buffer stored under it
    proc,       \* the invocation each process is running, and how its last one ended
    creator     \* for each target, the process that created its current lock file

vars == <<files, objects, proc, creator>>

Targets == {"index", "HEAD"}

\* MinigitError: which error, the path it names, and whether
\* "\nfatal: adding files failed" was appended
Res(kind, path, suffix) == [kind |-> kind, path |-> path, suffix |-> suffix]

Ok == Res("ok", <<>>, FALSE)

NoIndex == [entries |-> EmptyMap, parents |-> EmptyMap, lockfile |-> FALSE, changed |-> FALSE]

IdleProc ==
    [pc |-> "idle", cmd |-> "none", args |-> <<>>, message |-> "",
     index |-> NoIndex, todo |-> <<>>, pos |-> 0, stores |-> <<>>,
     tree |-> NoneOid, parent |-> NoneOid, commit |-> NoneOid,
     result |-> Res("none", <<>>, FALSE),
     n |-> 0, staged |-> 0, stored |-> 0, startIndex |-> Absent, headRenamed |-> FALSE,
     returned |-> FALSE]

\* The process has returned: its Repository and everything it owns is gone
Finished(r, res) ==
    [r EXCEPT !.pc = "idle", !.result = res, !.index = NoIndex, !.todo = <<>>,
              !.pos = 0, !.stores = <<>>, !.tree = NoneOid, !.parent = NoneOid,
              !.commit = NoneOid]

Runs == LET RECURSIVE Sum(_)
            Sum(S) == IF S = {} THEN 0
                      ELSE LET q == CHOOSE x \in S : TRUE IN proc[q].n + Sum(S \ {q})
        IN Sum(Procs)

\* An index file cut after its version field
TruncatedIndex == [exists |-> TRUE, data |-> <<SigChunk("DIRC"), U32Chunk(2)>>]

InitialIndexes == {Absent, TruncatedIndex}

AddArgs == {<<>>, <<pA>>, <<pD>>, <<pA, pX>>, <<pX, pA>>, <<pRoot>>}

Messages == {"", "message", "other"}

Init ==
    /\ \E initial \in InitialIndexes :
         files = [f \in {"index", "index.lock", "HEAD", "HEAD.lock"} |->
                    IF f = "index" THEN initial ELSE Absent]
    /\ objects = EmptyMap
    /\ proc = [p \in Procs |-> IdleProc]
    /\ creator = [t \in Targets |-> 0]

(* ------------------------- starting an invocation ---------------------- *)

Fresh(p, cmd, args, message) ==
    [IdleProc EXCEPT !.cmd = cmd, !.args = args, !.message = message,
                     !.n = proc[p].n + 1, !.startIndex = files["index"]]

\* Repository::index / index_take: Index::new acquires index.lock or fails
AcquireIndex(p, fresh) ==
    LET r == LockfileNew(files, "index")
    IN /\ files' = r.files
       /\ IF r.ok
          THEN /\ proc' = [proc EXCEPT ![p] = [fresh EXCEPT !.pc = "load", !.index = NewIndex]]
               /\ creator' = [creator EXCEPT !["index"] = p]
          ELSE /\ proc' = [proc EXCEPT ![p] = Finished(fresh, Res("lock", <<>>, FALSE))]
               /\ UNCHANGED creator
       /\ UNCHANGED objects

\* AddCommand::execute up to repository.index()
AddStart(p) ==
    /\ proc[p].pc = "idle"
    /\ Runs < MaxRuns
    /\ \E args \in AddArgs :
         IF args = <<>>
         THEN /\ proc' = [proc EXCEPT ![p] =
                            Finished(Fresh(p, "add", args, ""), Res("usage", <<>>, FALSE))]
              /\ UNCHANGED <<files, objects, creator>>
         ELSE AcquireIndex(p, Fresh(p, "add", args, ""))

\* CommitCommand::execute up to repository.index_take()
CommitStart(p) ==
    /\ proc[p].pc = "idle"
    /\ Runs < MaxRuns
    /\ \E message \in Messages : AcquireIndex(p, Fresh(p, "commit", <<>>, message))

\* StatusCommand::execute up to repository.index()
StatusStart(p) ==
    /\ proc[p].pc = "idle"
    /\ Runs < MaxRuns
    /\ AcquireIndex(p, Fresh(p, "status", <<>>, ""))

(* ------------------------------ loading -------------------------------- *)

\* Index::load_for_update; on an error the command returns and the Index is dropped
Load(p) ==
    /\ proc[p].pc = "load"
    /\ UNCHANGED <<objects, creator>>
    /\ LET loaded == IF files["index"].exists
                     THEN LoadData(proc[p].index, files["index"].data)
                     ELSE [err |-> "", index |-> proc[p].index]
       IN IF loaded.err # ""
          THEN /\ files' = LockfileDrop(files, "index", FALSE)
               /\ proc' = [proc EXCEPT ![p] = Finished(@, Res(loaded.err, <<>>, FALSE))]
          ELSE /\ files' = files
               /\ proc' = [proc EXCEPT ![p] =
                     [@ EXCEPT !.index = loaded.index,
                               !.pc = CASE proc[p].cmd = "add" -> "list"
                                        [] proc[p].cmd = "commit" -> "release"
                                        [] proc[p].cmd = "status" -> "scan"]]

(* --------------------------------- add --------------------------------- *)

\* AddCommand::execute, the loop calling list_files_from_path on every pathspec
ListFiles(p) ==
    /\ proc[p].pc = "list"
    /\ UNCHANGED <<objects, creator>>
    /\ IF MissingArgs(proc[p].args) # {}
       THEN /\ files' = LockfileDrop(files, "index", FALSE)
            /\ proc' = [proc EXCEPT ![p] =
                          Finished(@, Res("pathspec", FirstMissing(proc[p].args), FALSE))]
       ELSE /\ files' = files
            /\ \E list \in ListAll(proc[p].args) :
                 proc' = [proc EXCEPT ![p] =
                            [@ EXCEPT !.todo = list,
                                      !.pc = IF list = <<>> THEN "write" ELSE "store"]]

\* store_in_database_and_update_index, one iteration of its loop
StoreFile(p) ==
    /\ proc[p].pc = "store"
    /\ UNCHANGED creator
    /\ LET path == Head(proc[p].todo)
           file == WorkspaceFiles[path]
           st == DatabaseStore(objects, "blob", BlobPayload(file.data))
       IN \E outcome \in {"ok", "read_file", "store", "metadata"} :
            IF outcome = "ok"
            THEN /\ objects' = st.objects
                 /\ files' = files
                 /\ proc' = [proc EXCEPT ![p] =
                       [@ EXCEPT !.index = IndexAdd(@, path, st.oid, GetMetadata(file.stat)),
                                 !.todo = Tail(@),
                                 !.staged = @ + 1,
                                 !.stored = @ + 1,
                                 !.pc = IF Tail(proc[p].todo) = <<>> THEN "write" ELSE "store"]]
            ELSE /\ objects' = IF outcome = "metadata" THEN st.objects ELSE objects
                 /\ files' = LockfileDrop(files, "index", FALSE)
                 /\ proc' = [proc EXCEPT ![p] =
                       Finished([@ EXCEPT !.stored = IF outcome = "metadata" THEN @ + 1 ELSE @],
                                Res(outcome, path, TRUE))]

\* Index::write_updates, one write through the lock file (or the early return)
WriteUpdates(p) ==
    /\ proc[p].pc = "write"
    /\ UNCHANGED <<objects, creator>>
    /\ IF ~proc[p].index.lockfile \/ ~proc[p].index.changed
       THEN /\ files' = LockfileDrop(files, "index", FALSE)
            /\ proc' = [proc EXCEPT ![p] = Finished(@, Ok)]
       ELSE LET writes == IndexWrites(proc[p].index)
                k == proc[p].pos + 1
            IN \E written \in BOOLEAN :
                 IF written
                 THEN /\ files' = LockfileWrite(files, "index", writes[k])
                      /\ proc' = [proc EXCEPT ![p] =
                            [@ EXCEPT !.pos = k,
                                      !.pc = IF k = Len(writes) THEN "rename" ELSE "write"]]
                 ELSE /\ files' = LockfileDrop(files, "index", FALSE)
                      /\ proc' = [proc EXCEPT ![p] = Finished(@, Res("write", <<>>, FALSE))]

\* Index::write_updates, lockfile.commit(): the rename, then the return of add
RenameIndex(p) ==
    /\ proc[p].pc = "rename"
    /\ UNCHANGED <<objects, creator>>
    /\ \E renamed \in BOOLEAN :
         IF renamed
         THEN /\ files' = LockfileCommit(files, "index")
              /\ proc' = [proc EXCEPT ![p] = Finished(@, Ok)]
         ELSE /\ files' = LockfileDrop(files, "index", TRUE)
              /\ proc' = [proc EXCEPT ![p] = Finished(@, Res("rename", <<>>, FALSE))]

(* -------------------------------- status ------------------------------- *)

\* StatusCommand::execute after the load: the scan reads, then the Index is dropped
Scan(p) ==
    /\ proc[p].pc = "scan"
    /\ UNCHANGED <<objects, creator>>
    /\ files' = LockfileDrop(files, "index", FALSE)
    /\ proc' = [proc EXCEPT ![p] = Finished(@, Ok)]

(* -------------------------------- commit ------------------------------- *)

\* Index::load_and_get_entries returns: the Index is dropped, then Tree::build
Release(p) ==
    /\ proc[p].pc = "release"
    /\ UNCHANGED <<objects, creator>>
    /\ files' = LockfileDrop(files, "index", FALSE)
    /\ LET tree == TreeBuild(IndexEntries(proc[p].index))
       IN IF tree.panicked
          THEN proc' = [proc EXCEPT ![p] = Finished(@, Res("panic", <<>>, FALSE))]
          ELSE proc' = [proc EXCEPT ![p] =
                  [@ EXCEPT !.index = NoIndex,
                            !.stores = TreeTraverse(tree).stores,
                            !.tree = SomeOid(TreeTraverse(tree).oid),
                            !.pc = "trees"]]

\* Tree::traverse_private, one call of Database::store on a tree
StoreTree(p) ==
    /\ proc[p].pc = "trees"
    /\ UNCHANGED <<files, creator>>
    /\ LET st == DatabaseStore(objects, "tree", Head(proc[p].stores))
       IN \E stored \in BOOLEAN :
            IF stored
            THEN /\ objects' = st.objects
                 /\ proc' = [proc EXCEPT ![p] =
                       [@ EXCEPT !.stores = Tail(@),
                                 !.stored = @ + 1,
                                 !.pc = IF Tail(proc[p].stores) = <<>> THEN "head" ELSE "trees"]]
            ELSE /\ objects' = objects
                 /\ proc' = [proc EXCEPT ![p] = Finished(@, Res("store", <<>>, FALSE))]

\* CommitCommand::execute: read_head, the environment and the message
ReadParent(p) ==
    /\ proc[p].pc = "head"
    /\ UNCHANGED <<files, objects, creator>>
    /\ \E outcome \in {"ok", "read_head", "env"} :
         IF outcome = "ok"
         THEN proc' = [proc EXCEPT ![p] =
                 [@ EXCEPT !.parent = ReadHead(files),
                           !.commit = SomeOid(ObjectOid("commit",
                                        CommitPayload(ReadHead(files), proc[p].message,
                                                      proc[p].tree.v))),
                           !.pc = "commit"]]
         ELSE proc' = [proc EXCEPT ![p] = Finished(@, Res(outcome, <<>>, FALSE))]

\* CommitCommand::execute: Database::store of the commit
StoreCommit(p) ==
    /\ proc[p].pc = "commit"
    /\ UNCHANGED <<files, creator>>
    /\ LET st == DatabaseStore(objects, "commit",
                   CommitPayload(proc[p].parent, proc[p].message, proc[p].tree.v))
       IN \E stored \in BOOLEAN :
            IF stored
            THEN /\ objects' = st.objects
                 /\ proc' = [proc EXCEPT ![p] = [@ EXCEPT !.stored = @ + 1, !.pc = "headlock"]]
            ELSE /\ objects' = objects
                 /\ proc' = [proc EXCEPT ![p] = Finished(@, Res("store", <<>>, FALSE))]

\* Refs::update_head: Lockfile::new on HEAD
LockHead(p) ==
    /\ proc[p].pc = "headlock"
    /\ UNCHANGED objects
    /\ LET r == LockfileNew(files, "HEAD")
       IN /\ files' = r.files
          /\ IF r.ok
             THEN /\ proc' = [proc EXCEPT ![p] = [@ EXCEPT !.pc = "headwrite"]]
                  /\ creator' = [creator EXCEPT !["HEAD"] = p]
             ELSE /\ proc' = [proc EXCEPT ![p] = Finished(@, Res("lock", <<>>, FALSE))]
                  /\ UNCHANGED creator

\* Refs::update_head: write_str of the OID through the lock file
WriteHead(p) ==
    /\ proc[p].pc = "headwrite"
    /\ UNCHANGED <<objects, creator>>
    /\ \E written \in BOOLEAN :
         IF written
         THEN /\ files' = LockfileWrite(files, "HEAD", proc[p].commit.v)
              /\ proc' = [proc EXCEPT ![p] = [@ EXCEPT !.pc = "headrename"]]
         ELSE /\ files' = LockfileDrop(files, "HEAD", FALSE)
              /\ proc' = [proc EXCEPT ![p] = Finished(@, Res("write", <<>>, FALSE))]

\* Refs::update_head: the rename, then the line CommitCommand::execute prints,
\* whose unwrap panics when the message has no first line
RenameHead(p) ==
    /\ proc[p].pc = "headrename"
    /\ UNCHANGED <<objects, creator>>
    /\ \E renamed \in BOOLEAN :
         IF renamed
         THEN /\ files' = LockfileCommit(files, "HEAD")
              /\ proc' = [proc EXCEPT ![p] =
                    Finished([@ EXCEPT !.headRenamed = TRUE],
                             IF FirstLineExists(proc[p].message) THEN Ok
                             ELSE Res("panic", <<>>, FALSE))]
         ELSE /\ files' = LockfileDrop(files, "HEAD", TRUE)
              /\ proc' = [proc EXCEPT ![p] = Finished(@, Res("rename", <<>>, FALSE))]

(* --------------------------------- kill -------------------------------- *)

\* The process is killed: nothing is dropped, its lock files stay
Kill(p) ==
    /\ proc[p].pc # "idle"
    /\ proc' = [proc EXCEPT ![p] = Finished(@, Res("killed", <<>>, FALSE))]
    /\ UNCHANGED <<files, objects, creator>>

Next ==
    \E p \in Procs :
        \/ AddStart(p)
        \/ CommitStart(p)
        \/ StatusStart(p)
        \/ Load(p)
        \/ ListFiles(p)
        \/ StoreFile(p)
        \/ WriteUpdates(p)
        \/ RenameIndex(p)
        \/ Scan(p)
        \/ Release(p)
        \/ StoreTree(p)
        \/ ReadParent(p)
        \/ StoreCommit(p)
        \/ LockHead(p)
        \/ WriteHead(p)
        \/ RenameHead(p)
        \/ Kill(p)

Spec == Init /\ [][Next]_vars

(* ------------------- the Index used on its own ------------------------- *)

\* The paths and OIDs handed to Index::add in SpecIndex
PathUniverse ==
    {<<"a">>, <<"a", "/", "b">>, <<"a", "/", "b", "/", "c">>, <<"a", "/", "c">>,
     <<"a", "-", "b">>}

ApiOids == {ObjectOid("blob", BlobPayload(<<1>>)), ObjectOid("blob", BlobPayload(<<2>>))}

ApiMetadata == GetMetadata(FileStat(1, FALSE))

RECURSIVE WriteAll(_, _, _)
WriteAll(fs, target, writes) ==
    IF writes = <<>> THEN fs
    ELSE WriteAll(LockfileWrite(fs, target, Head(writes)), target, Tail(writes))

InitIndex ==
    /\ files = [f \in {"index", "index.lock", "HEAD", "HEAD.lock"} |->
                  IF f = "index.lock" THEN EmptyFile ELSE Absent]
    /\ objects = EmptyMap
    /\ proc = [p \in Procs |->
                 IF p = 1 THEN [IdleProc EXCEPT !.pc = "api", !.index = NewIndex]
                 ELSE IdleProc]
    /\ creator = [t \in Targets |-> IF t = "index" THEN 1 ELSE 0]

\* Index::add
ApiAdd ==
    /\ proc[1].pc = "api"
    /\ \E path \in PathUniverse, oid \in ApiOids :
         proc' = [proc EXCEPT ![1] =
                    [@ EXCEPT !.index = IndexAdd(@, path, oid, ApiMetadata),
                              !.staged = 1, !.cmd = "Index::add", !.returned = FALSE]]
    /\ UNCHANGED <<files, objects, creator>>

\* Index::write_updates, mutated: the index is written whether or not an
\* add has changed it
WriteUpdatesProceedsUnchanged(ix) == ix.lockfile

\* Index::write_updates goes past its early return
WriteUpdatesProceeds(ix) == ~(~ix.lockfile \/ ~ix.changed)

\* Index::write_updates: the early return, or the writes and the rename when
\* each of them succeeds; returned is the boolean it hands back
ApiWriteUpdates ==
    /\ proc[1].pc = "api"
    /\ IF WriteUpdatesProceeds(proc[1].index)
       THEN /\ files' = LockfileCommit(WriteAll(files, "index", IndexWrites(proc[1].index)),
                                       "index")
            /\ proc' = [proc EXCEPT ![1] =
                          [@ EXCEPT !.index = [@ EXCEPT !.lockfile = FALSE, !.changed = TRUE],
                                    !.pos = 1, !.cmd = "Index::write_updates",
                                    !.returned = TRUE]]
       ELSE /\ files' = files
            /\ proc' = [proc EXCEPT ![1] =
                          [@ EXCEPT !.cmd = "Index::write_updates", !.returned = FALSE]]
    /\ UNCHANGED <<objects, creator>>

\* The Index is dropped
ApiDrop ==
    /\ proc[1].pc = "api"
    /\ files' = LockfileDrop(files, "index", ~proc[1].index.lockfile)
    /\ proc' = [proc EXCEPT ![1] = [@ EXCEPT !.pc = "closed", !.index = NoIndex]]
    /\ UNCHANGED <<objects, creator>>

\* Index::new on the same path, then Index::load_for_update
ApiOpen ==
    /\ proc[1].pc = "closed"
    /\ LockfileNew(files, "index").ok
    /\ files' = LockfileNew(files, "index").files
    /\ LET loaded == IF files["index"].exists
                     THEN LoadData(NewIndex, files["index"].data)
                     ELSE [err |-> "", index |-> NewIndex]
       IN proc' = [proc EXCEPT ![1] =
                     [@ EXCEPT !.pc = "api", !.index = loaded.index, !.staged = 0,
                               !.cmd = "Index::load_for_update", !.returned = FALSE,
                               !.pos = IF files["index"].exists THEN 2 ELSE 0,
                               !.result = Res(IF loaded.err = "" THEN "ok" ELSE loaded.err,
                                              <<>>, FALSE)]]
    /\ UNCHANGED <<objects, creator>>

NextIndex == ApiAdd \/ ApiWriteUpdates \/ ApiDrop \/ ApiOpen

SpecIndex == InitIndex /\ [][NextIndex]_vars

(* ------------------- the index file, byte by byte ---------------------- *)

\* The characters of the paths of the model
Alphabet == {"-", ".", "/", "a", "b", "c", "d", "x"}

\* str::as_bytes of a path
PathBytes(path) == [i \in 1..Len(path) |-> CharCode(path[i])]

\* std::str::from_utf8 on bytes below 128
CharOf(b) == IF \E c \in Alphabet : CharCode(c) = b
             THEN CHOOSE c \in Alphabet : CharCode(c) = b
             ELSE "?"

IsUtf8(bytes) == \A i \in 1..Len(bytes) : bytes[i] < 128

LowerHex == <<"0", "1", "2", "3", "4", "5", "6", "7", "8", "9", "a", "b", "c", "d", "e", "f">>
UpperHex == <<"0", "1", "2", "3", "4", "5", "6", "7", "8", "9", "A", "B", "C", "D", "E", "F">>

\* u8::from_str_radix(_, 16) on one digit: both cases are accepted
HexValue(c) == (CHOOSE k \in 1..16 : LowerHex[k] = c \/ UpperHex[k] = c) - 1

\* oid_to_compressed_u8_array
OidToCompressedU8Array(oid) ==
    [i \in 1..20 |-> IF i <= Len(oid) \div 2
                     THEN 16 * HexValue(oid[2 * i - 1]) + HexValue(oid[2 * i])
                     ELSE 0]

\* uncompress_u8_array_to_oid, mutated: the digits are formatted with {:X}
UncompressU8ArrayToOidUpper(input) ==
    [i \in 1..(2 * Len(input)) |->
        IF i % 2 = 1 THEN UpperHex[(input[(i + 1) \div 2] \div 16) + 1]
        ELSE UpperHex[(input[i \div 2] % 16) + 1]]

\* uncompress_u8_array_to_oid: format!("{:x}{:x}", byte >> 4, byte & 0xf)
UncompressU8ArrayToOid(input) ==
    [i \in 1..(2 * Len(input)) |->
        IF i % 2 = 1 THEN LowerHex[(input[(i + 1) \div 2] \div 16) + 1]
        ELSE LowerHex[(input[i \div 2] % 16) + 1]]

\* u32_to_u8_array_big_endian
U32ToU8ArrayBigEndian(number) ==
    <<(number \div 16777216) % 256, (number \div 65536) % 256,
      (number \div 256) % 256, number % 256>>

\* u8_array_to_u32_big_endian
U8ArrayToU32BigEndian(input) ==
    input[1] * 16777216 + input[2] * 65536 + input[3] * 256 + input[4]

\* u16_to_u8_array_big_endian
U16ToU8ArrayBigEndian(number) == <<(number \div 256) % 256, number % 256>>

\* u8_array_to_u16_big_endian
U8ArrayToU16BigEndian(input) == input[1] * 256 + input[2]

\* Sha1: the 20-byte digest of the model is a position-weighted checksum
RECURSIVE WeightedSum(_, _, _)
WeightedSum(data, lo, hi) ==
    IF lo > hi THEN 0
    ELSE IF lo = hi THEN data[lo] * lo
    ELSE WeightedSum(data, lo, (lo + hi) \div 2) + WeightedSum(data, ((lo + hi) \div 2) + 1, hi)

Sha1Digest(data) ==
    [i \in 1..20 |-> ((WeightedSum(data, 1, Len(data)) \div i) + Len(data) + i) % 256]

\* Sha1::result_str of bytes
Sha1ResultStr(data) == UncompressU8ArrayToOid(Sha1Digest(data))

\* Entry::get_data, every byte of it
RECURSIVE PadToBlock(_)
PadToBlock(data) == IF Len(data) % 8 = 0 THEN data ELSE PadToBlock(data \o <<0>>)

EntryGetDataBytes(e) ==
    PadToBlock(
        U32ToU8ArrayBigEndian(e.metadata.ctime) \o U32ToU8ArrayBigEndian(e.metadata.ctime_nsec)
        \o U32ToU8ArrayBigEndian(e.metadata.mtime) \o U32ToU8ArrayBigEndian(e.metadata.mtime_nsec)
        \o U32ToU8ArrayBigEndian(e.metadata.dev) \o U32ToU8ArrayBigEndian(e.metadata.ino)
        \o U32ToU8ArrayBigEndian(e.metadata.mode) \o U32ToU8ArrayBigEndian(e.metadata.uid)
        \o U32ToU8ArrayBigEndian(e.metadata.gid) \o U32ToU8ArrayBigEndian(e.metadata.size)
        \o OidToCompressedU8Array(e.oid)
        \o U16ToU8ArrayBigEndian(e.flags)
        \o PathBytes(e.path)
        \o <<0>>)

\* "DIRC".as_bytes()
SignatureBytes == <<68, 73, 82, 67>>

RECURSIVE Concat(_)
Concat(seqs) == IF seqs = <<>> THEN <<>> ELSE Head(seqs) \o Concat(Tail(seqs))

\* Index::write_updates: the bytes that go through the hasher, in order
IndexFileBody(ix) ==
    SignatureBytes \o U32ToU8ArrayBigEndian(2)
      \o U32ToU8ArrayBigEndian(Cardinality(DOMAIN ix.entries))
      \o Concat([i \in 1..Len(IndexEntries(ix)) |-> EntryGetDataBytes(IndexEntries(ix)[i])])

\* Index::write_updates: every byte written through the lock file
IndexFileBytes(ix) ==
    IndexFileBody(ix) \o OidToCompressedU8Array(Sha1ResultStr(IndexFileBody(ix)))

\* Index::get_slice, mutated: data that ends too early is reported as corrupt
GetSliceCorrupt(data, offset, size) ==
    IF Len(data) < offset + size
    THEN [err |-> ErrCorrupt, offset |-> offset, bytes |-> <<>>]
    ELSE [err |-> "", offset |-> offset + size, bytes |-> SubSeq(data, offset + 1, offset + size)]

\* Index::get_slice; offsets count from 0 as in the code
GetSlice(data, offset, size) ==
    IF Len(data) < offset + size
    THEN [err |-> ErrTooShort, offset |-> offset, bytes |-> <<>>]
    ELSE [err |-> "", offset |-> offset + size, bytes |-> SubSeq(data, offset + 1, offset + size)]

\* Consecutive calls of get_slice with the given sizes; the first error ends them
RECURSIVE GetSlices(_, _, _, _)
GetSlices(data, offset, sizes, acc) ==
    IF sizes = <<>> THEN [err |-> "", offset |-> offset, slices |-> acc]
    ELSE LET s == GetSlice(data, offset, Head(sizes))
         IN IF s.err # "" THEN [err |-> s.err, offset |-> offset, slices |-> acc]
            ELSE GetSlices(data, s.offset, Tail(sizes), Append(acc, s.bytes))

\* Index::read_header
ReadHeaderBytes(data) ==
    LET signature == GetSlice(data, 0, 4)
        version == GetSlice(data, 4, 4)
        count == GetSlice(data, 8, 4)
    IN IF signature.err # "" THEN [err |-> signature.err, count |-> 0, offset |-> 0]
       ELSE IF signature.bytes # SignatureBytes THEN [err |-> ErrSignature, count |-> 0, offset |-> 4]
       ELSE IF version.err # "" THEN [err |-> version.err, count |-> 0, offset |-> 4]
       ELSE IF U8ArrayToU32BigEndian(version.bytes) # 2 THEN [err |-> ErrVersion, count |-> 0, offset |-> 8]
       ELSE IF count.err # "" THEN [err |-> count.err, count |-> 0, offset |-> 8]
       ELSE [err |-> "", count |-> U8ArrayToU32BigEndian(count.bytes), offset |-> 12]

\* Index::get_entry_size, first loop: the size grows by blocks until it
\* passes the end of the data or the byte that ends it is NUL; the result is
\* the first size at which the loop stops, 0 when it stops past the end
GrowEntrySize(data, offset, entry_min_size, entry_block_size) ==
    LET sizes == {entry_min_size + j * entry_block_size :
                    j \in 0..(((Len(data) - offset) \div entry_block_size) + 1)}
        stops == {c \in sizes : Len(data) < offset + c \/ data[offset + c] = 0}
        first == CHOOSE c \in stops : \A other \in stops : c <= other
    IN IF Len(data) < offset + first THEN 0 ELSE first

\* Index::get_entry_size, second loop: the trailing NULs are taken off; 0
\* stands for nothing being left
RECURSIVE ShrinkPathSize(_, _, _)
ShrinkPathSize(data, offset, path_size) ==
    IF data[offset + path_size] # 0 THEN path_size
    ELSE IF path_size - 1 = 0 THEN 0
    ELSE ShrinkPathSize(data, offset, path_size - 1)

\* Index::get_entry_size
GetEntrySize(data, offset, entry_min_size, entry_block_size) ==
    LET entry_size == GrowEntrySize(data, offset, entry_min_size, entry_block_size)
        path_size == ShrinkPathSize(data, offset, entry_size)
    IN IF entry_size = 0 THEN [err |-> ErrTooShort, path_size |-> 0, padding_size |-> 0]
       ELSE IF path_size = 0 THEN [err |-> ErrCorrupt, path_size |-> 0, padding_size |-> 0]
       ELSE [err |-> "", path_size |-> path_size, padding_size |-> entry_size - path_size]

\* Index::read_entry
ReadEntryBytes(data, offset) ==
    LET fixed == GetSlices(data, offset, <<4, 4, 4, 4, 4, 4, 4, 4, 4, 4, 20, 2>>, <<>>)
        f == fixed.slices
        sizes == GetEntrySize(data, fixed.offset, 2, 8)
        path_bytes == GetSlice(data, fixed.offset, sizes.path_size)
        metadata == [ctime |-> U8ArrayToU32BigEndian(f[1]), ctime_nsec |-> U8ArrayToU32BigEndian(f[2]),
                     mtime |-> U8ArrayToU32BigEndian(f[3]), mtime_nsec |-> U8ArrayToU32BigEndian(f[4]),
                     dev |-> U8ArrayToU32BigEndian(f[5]), ino |-> U8ArrayToU32BigEndian(f[6]),
                     mode |-> U8ArrayToU32BigEndian(f[7]), uid |-> U8ArrayToU32BigEndian(f[8]),
                     gid |-> U8ArrayToU32BigEndian(f[9]), size |-> U8ArrayToU32BigEndian(f[10])]
        none == EntryNew(<<>>, <<>>, ApiMetadata)
    IN IF fixed.err # "" THEN [err |-> fixed.err, offset |-> fixed.offset, entry |-> none]
       ELSE IF sizes.err # "" THEN [err |-> sizes.err, offset |-> fixed.offset, entry |-> none]
       ELSE IF path_bytes.err # "" THEN [err |-> path_bytes.err, offset |-> fixed.offset, entry |-> none]
       ELSE IF ~IsUtf8(path_bytes.bytes)
            THEN [err |-> ErrCorrupt, offset |-> path_bytes.offset + sizes.padding_size, entry |-> none]
       ELSE [err |-> "", offset |-> path_bytes.offset + sizes.padding_size,
             entry |-> EntryNew([i \in 1..Len(path_bytes.bytes) |-> CharOf(path_bytes.bytes[i])],
                                UncompressU8ArrayToOid(f[11]), metadata)]

\* Index::load_for_update, the loop over the entries
RECURSIVE LoadEntriesBytes(_, _, _, _)
LoadEntriesBytes(ix, data, offset, count) ==
    IF count = 0 THEN [err |-> "", index |-> ix, offset |-> offset]
    ELSE LET r == ReadEntryBytes(data, offset)
         IN IF r.err # "" THEN [err |-> r.err, index |-> ix, offset |-> offset]
            ELSE LoadEntriesBytes(InsertEntry(ix, r.entry), data, r.offset, count - 1)

\* Index::verify_hash, mutated: the trailer is not compared
VerifyHashBytesLengthOnly(offset, data) ==
    IF Len(data) < offset + 20 THEN ErrTooShort ELSE ""

\* Index::verify_hash
VerifyHashBytes(offset, data) ==
    IF Len(data) < offset + 20 THEN ErrTooShort
    ELSE IF OidToCompressedU8Array(Sha1ResultStr(SubSeq(data, 1, Len(data) - 20)))
              = SubSeq(data, Len(data) - 19, Len(data))
         THEN ""
    ELSE ErrCorrupt

\* Index::load_for_update on the bytes of an existing index file
LoadBytes(ix, data) ==
    LET header == ReadHeaderBytes(data)
        loaded == LoadEntriesBytes(IndexClear(ix), data, header.offset, header.count)
    IN IF header.err # "" THEN [err |-> header.err, index |-> IndexClear(ix)]
       ELSE IF loaded.err # "" THEN [err |-> loaded.err, index |-> loaded.index]
       ELSE [err |-> VerifyHashBytes(loaded.offset, data), index |-> loaded.index]

(* ------------- the Index written and loaded byte by byte --------------- *)

\* The paths, OIDs and metadata handed to Index::add in SpecCodec
CodecPaths == {<<"a">>, <<"a", "/", "b">>, <<"d", "x">>}

OidLower == [i \in 1..40 |-> LowerHex[((7 * i) % 16) + 1]]
OidUpper == [i \in 1..40 |-> UpperHex[((7 * i) % 16) + 1]]

CodecOids == {OidLower, OidUpper}

CodecMetadata ==
    [ctime |-> 1, ctime_nsec |-> 999999999, mtime |-> 2147483647, mtime_nsec |-> 0,
     dev |-> 65536, ino |-> 258, mode |-> 33261, uid |-> 1000, gid |-> 255, size |-> 16777216]

InitCodec ==
    /\ files = [f \in {"index", "index.lock", "HEAD", "HEAD.lock"} |->
                  IF f = "index.lock" THEN EmptyFile ELSE Absent]
    /\ objects = EmptyMap
    /\ proc = [p \in Procs |->
                 IF p = 1 THEN [IdleProc EXCEPT !.pc = "api", !.index = NewIndex]
                 ELSE IdleProc]
    /\ creator = [t \in Targets |-> IF t = "index" THEN 1 ELSE 0]

\* Index::add
CodecAdd ==
    /\ proc[1].pc \in {"api", "loaded"}
    /\ \E path \in CodecPaths, oid \in CodecOids :
         proc' = [proc EXCEPT ![1] =
                    [@ EXCEPT !.pc = "api",
                              !.index = IndexAdd(@, path, oid, CodecMetadata)]]
    /\ UNCHANGED <<files, objects, creator>>

\* Index::write_updates when every write and the rename succeed, then the
\* Index is dropped; todo keeps the entries as they were yielded at that time
CodecWriteUpdates ==
    /\ proc[1].pc \in {"api", "loaded"}
    /\ proc[1].index.lockfile
    /\ proc[1].index.changed
    /\ files' = [files EXCEPT
                   !["index"] = [exists |-> TRUE, data |-> IndexFileBytes(proc[1].index)],
                   !["index.lock"] = Absent]
    /\ proc' = [proc EXCEPT ![1] =
                  [@ EXCEPT !.pc = "written", !.index = NoIndex,
                            !.todo = IndexEntries(proc[1].index), !.pos = 1]]
    /\ UNCHANGED <<objects, creator>>

\* The index file loses its end
CodecTruncate ==
    /\ proc[1].pc = "written"
    /\ \E k \in 0..(Len(files["index"].data) - 1) :
         files' = [files EXCEPT !["index"] =
                     [exists |-> TRUE, data |-> SubSeq(files["index"].data, 1, k)]]
    /\ proc' = [proc EXCEPT ![1] = [@ EXCEPT !.pc = "cut", !.pos = 2]]
    /\ UNCHANGED <<objects, creator>>

\* One byte of the index file changes: a byte of the first entry's metadata
\* or a byte of the trailer
CodecAlter ==
    /\ proc[1].pc = "written"
    /\ \E i \in {16} \cup ((Len(files["index"].data) - 19)..Len(files["index"].data)) :
         files' = [files EXCEPT !["index"] =
                     [exists |-> TRUE,
                      data |-> [files["index"].data EXCEPT ![i] = (@ + 1) % 256]]]
    /\ proc' = [proc EXCEPT ![1] = [@ EXCEPT !.pc = "altered", !.pos = 3]]
    /\ UNCHANGED <<objects, creator>>

\* Index::new on the same path, then Index::load_for_update; on an error the
\* Index is dropped
CodecLoad ==
    /\ proc[1].pc \in {"written", "cut", "altered"}
    /\ LockfileNew(files, "index").ok
    /\ LET loaded == LoadBytes(NewIndex, files["index"].data)
       IN IF loaded.err = ""
          THEN /\ files' = LockfileNew(files, "index").files
               /\ proc' = [proc EXCEPT ![1] =
                             [@ EXCEPT !.pc = "loaded", !.index = loaded.index, !.result = Ok]]
          ELSE /\ files' = files
               /\ proc' = [proc EXCEPT ![1] =
                             [@ EXCEPT !.pc = "failed",
                                       !.result = Res(loaded.err, <<>>, FALSE)]]
    /\ UNCHANGED <<objects, creator>>

NextCodec == CodecAdd \/ CodecWriteUpdates \/ CodecTruncate \/ CodecAlter \/ CodecLoad

SpecCodec == InitCodec /\ [][NextCodec]_vars

(* ------------- Database::store, one file operation at a time ---------- *)

\* Stores started over a behaviour of SpecDb or SpecStore
MaxStores == 3

\* What the clock can answer to SystemTime::now() in write_object
Nanos == {1, 2}

\* The objects handed to Database::store: type and payload
DbObjects ==
    {[kind |-> "blob", payload |-> BlobPayload(<<1>>)],
     [kind |-> "blob", payload |-> BlobPayload(<<3>>)],
     [kind |-> "blob", payload |-> BlobPayload(<<2>>)],
     [kind |-> "commit", payload |-> BlobPayload(<<1>>)]}

\* &oid[0..2], the fan-out directory: several OIDs share one
OidPrefix(oid) ==
    (oid.sha1.payload[1].byte + (IF oid.sha1.kind = "blob" THEN 0 ELSE 1)) % 2

\* ZlibEncoder::write_all then finish, and what a reader inflates
ZlibEncode(content) == [zlib |-> content]
ZlibDecode(compressed) == compressed.zlib

\* A file whose content was written whole, and one that was created or
\* truncated and whose content was not written whole
WholeFile(compressed) == [whole |-> TRUE, data |-> compressed]
PartFile == [whole |-> FALSE, data |-> ZlibEncode(ObjectBuffer("", <<>>))]

\* tmp_<nanos> in a fan-out directory
TmpPath(oid, nanos) == <<OidPrefix(oid), nanos>>

DbIdle ==
    [pc |-> "idle", kind |-> "", payload |-> <<>>, oid |-> Sha1Hex(ObjectBuffer("", <<>>)),
     nanos |-> 0, result |-> "none", n |-> 0, existed |-> FALSE]

DbStores(P) ==
    LET RECURSIVE Sum(_)
        Sum(S) == IF S = {} THEN 0
                  ELSE LET q == CHOOSE x \in S : TRUE IN proc[q].n + Sum(S \ {q})
    IN Sum(P)

\* files.dirs: the fan-out directories; files.tmp: the temporary files;
\* objects: the object files, by OID
InitDb ==
    /\ files = [dirs |-> {}, tmp |-> EmptyMap]
    /\ objects = EmptyMap
    /\ proc = [p \in Procs |-> DbIdle]
    /\ creator = [t \in Targets |-> 0]

DbReturn(p, result) == proc' = [proc EXCEPT ![p] = [@ EXCEPT !.pc = "idle", !.result = result]]

\* Database::store: the buffer is built and hashed, the OID is set
DbStore(p) ==
    /\ proc[p].pc = "idle"
    /\ DbStores(Procs) < MaxStores
    /\ \E o \in DbObjects :
         proc' = [proc EXCEPT ![p] =
                    [pc |-> "dir", kind |-> o.kind, payload |-> o.payload,
                     oid |-> ObjectOid(o.kind, o.payload), nanos |-> 0, result |-> "none",
                     n |-> proc[p].n + 1,
                     existed |-> ObjectOid(o.kind, o.payload) \in DOMAIN objects]]
    /\ UNCHANGED <<files, objects, creator>>

\* write_object: root_path.exists()
DbDirExists(p) ==
    /\ proc[p].pc = "dir"
    /\ proc' = [proc EXCEPT ![p] =
                  [@ EXCEPT !.pc = IF OidPrefix(proc[p].oid) \in files.dirs
                                   THEN "object" ELSE "mkdir"]]
    /\ UNCHANGED <<files, objects, creator>>

\* write_object: fs::create_dir, which fails when the directory exists by now
DbCreateDir(p) ==
    /\ proc[p].pc = "mkdir"
    /\ IF OidPrefix(proc[p].oid) \in files.dirs
       THEN /\ DbReturn(p, "error")
            /\ UNCHANGED files
       ELSE /\ files' = [files EXCEPT !.dirs = @ \cup {OidPrefix(proc[p].oid)}]
            /\ proc' = [proc EXCEPT ![p] = [@ EXCEPT !.pc = "object"]]
    /\ UNCHANGED <<objects, creator>>

\* object_path.exists(), mutated: the object is written again every time
ObjectPathExistsNever(objs, oid) == FALSE

\* write_object: object_path.exists()
ObjectPathExists(objs, oid) == oid \in DOMAIN objs

\* write_object: object_path.exists(), then the name of the temporary file
DbObjectExists(p) ==
    /\ proc[p].pc = "object"
    /\ IF ObjectPathExists(objects, proc[p].oid)
       THEN DbReturn(p, "ok")
       ELSE \E nanos \in Nanos :
              proc' = [proc EXCEPT ![p] = [@ EXCEPT !.pc = "write", !.nanos = nanos]]
    /\ UNCHANGED <<files, objects, creator>>

\* write_object: fs::write creates or truncates the temporary file and writes
\* the compressed buffer; when it fails the file is left as far as it got
DbWriteTmp(p) ==
    /\ proc[p].pc = "write"
    /\ LET tmp_path == TmpPath(proc[p].oid, proc[p].nanos)
           names == DOMAIN files.tmp \cup {tmp_path}
           compressed == ZlibEncode(ObjectBuffer(proc[p].kind, proc[p].payload))
       IN \E written \in BOOLEAN :
            /\ files' = [files EXCEPT !.tmp =
                           [t \in names |->
                              IF t = tmp_path
                              THEN (IF written THEN WholeFile(compressed) ELSE PartFile)
                              ELSE files.tmp[t]]]
            /\ IF written
               THEN proc' = [proc EXCEPT ![p] = [@ EXCEPT !.pc = "rename"]]
               ELSE DbReturn(p, "error")
    /\ UNCHANGED <<objects, creator>>

\* write_object: fs::rename of the temporary file onto the object path
DbRename(p) ==
    /\ proc[p].pc = "rename"
    /\ LET tmp_path == TmpPath(proc[p].oid, proc[p].nanos)
           paths == DOMAIN objects \cup {proc[p].oid}
       IN \E renamed \in BOOLEAN :
            IF renamed /\ tmp_path \in DOMAIN files.tmp
            THEN /\ objects' = [o \in paths |->
                                  IF o = proc[p].oid THEN files.tmp[tmp_path] ELSE objects[o]]
                 /\ files' = [files EXCEPT !.tmp =
                                [t \in DOMAIN files.tmp \ {tmp_path} |-> files.tmp[t]]]
                 /\ DbReturn(p, "ok")
            ELSE /\ DbReturn(p, "error")
                 /\ UNCHANGED <<files, objects>>
    /\ UNCHANGED creator

NextDb(P) ==
    \E p \in P :
        \/ DbStore(p)
        \/ DbDirExists(p)
        \/ DbCreateDir(p)
        \/ DbObjectExists(p)
        \/ DbWriteTmp(p)
        \/ DbRename(p)

\* Several invocations store at the same time
SpecDb == InitDb /\ [][NextDb(Procs)]_vars

\* One invocation stores, one object after the other
SpecStore == InitDb /\ [][NextDb({1})]_vars

(* ------------------- one entry, serialized and read -------------------- *)

\* The short paths of SpecEntry have 1 to MaxPathLen bytes
MaxPathLen == 40

\* The lengths around the clamp of the flags and around a block boundary
LongLengths == {4088, 4089, 4095, 4096, 4097}

EntryLengths == (1..MaxPathLen) \cup LongLengths

\* A path of n bytes
PathOfLength(n) == [i \in 1..n |-> "a"]

InitEntry ==
    /\ files = [f \in {"index", "index.lock", "HEAD", "HEAD.lock"} |->
                  IF f = "index.lock" THEN EmptyFile ELSE Absent]
    /\ objects = EmptyMap
    /\ proc = [p \in Procs |-> IF p = 1 THEN [IdleProc EXCEPT !.pc = "entry"] ELSE IdleProc]
    /\ creator = [t \in Targets |-> IF t = "index" THEN 1 ELSE 0]

\* Entry::new, then Entry::get_data written through the lock file
EntrySerialize ==
    /\ proc[1].pc = "entry"
    /\ \E n \in EntryLengths, oid \in CodecOids :
         LET e == EntryNew(PathOfLength(n), oid, CodecMetadata)
         IN /\ files' = [files EXCEPT !["index.lock"] =
                           [exists |-> TRUE, data |-> EntryGetDataBytes(e)]]
            /\ proc' = [proc EXCEPT ![1] = [@ EXCEPT !.pc = "data", !.todo = <<e>>, !.pos = n]]
    /\ UNCHANGED <<objects, creator>>

\* Index::read_entry on the bytes of the entry
EntryRead ==
    /\ proc[1].pc = "data"
    /\ LET r == ReadEntryBytes(files["index.lock"].data, 0)
       IN proc' = [proc EXCEPT ![1] =
                     [@ EXCEPT !.pc = "read", !.stores = <<r.entry>>, !.n = r.offset,
                               !.result = Res(IF r.err = "" THEN "ok" ELSE r.err, <<>>, FALSE)]]
    /\ UNCHANGED <<files, objects, creator>>

NextEntry == EntrySerialize \/ EntryRead

SpecEntry == InitEntry /\ [][NextEntry]_vars

(* ------------- the workspace traversal and the status command ---------- *)

\* The paths a workspace of SpecStatus may hold
wA == <<"a">>
wAC == <<"a", "/", "c">>
wACE == <<"a", "/", "c", "/", "e">>
wADS == <<"a", "/", ".", "D", "S", "_", "S", "t", "o", "r", "e">>
wT == <<"t", "a", "r", "g", "e", "t">>
wTF == <<"t", "a", "r", "g", "e", "t", "/", "f">>
wX == <<"x", ".", "i", "m", "l">>
wXF == <<"x", ".", "i", "m", "l", "/", "f">>

WsCandidates == {wA, wAC, wACE, wADS, wT, wTF, wX, wXF}

\* The names the directory of the workspace may bear
WsRootNames == {<<"w">>, wT}

\* The trees of regular files and directories over the candidate paths (of the
\* directories, only a and a/c are also taken empty)
WsKinds ==
    {k \in [WsCandidates -> {"none", "file", "dir"}] :
        /\ \A q \in {wACE, wADS, wTF, wXF} : k[q] # "dir"
        /\ k[wT] = "dir" => k[wTF] = "file"
        /\ k[wX] = "dir" => k[wXF] = "file"
        /\ \A q \in WsCandidates :
             (k[q] # "none" /\ PathParent(q) # <<>>) => k[PathParent(q)] = "dir"}

\* Path::is_file / Path::is_dir on a path below the workspace directory
KindIn(ws, path) ==
    IF path = <<>> THEN "dir"
    ELSE IF path \in DOMAIN ws.kind THEN ws.kind[path]
    ELSE "none"

\* Path::file_name of the canonical path: the workspace directory has a name too
AbsFileName(ws, path) == IF path = <<>> THEN ws.root ELSE FileName(path)

\* fs::read_dir
ReadDir(ws, dir) == {q \in DOMAIN ws.kind : ws.kind[q] # "none" /\ PathParent(q) = dir}

\* Workspace::list_dir: both ignore checks are made on every child, whatever
\* its type; the order of the Vec is the order of read_dir and is left out,
\* every caller gathers its results in a set or a boolean
ListDir(ws, path) ==
    IF KindIn(ws, path) # "dir" THEN [ok |-> FALSE, paths |-> {}]
    ELSE [ok |-> TRUE,
          paths |-> {q \in ReadDir(ws, path) :
                       ~IsDirIgnored(AbsFileName(ws, q)) /\ ~IsFileIgnored(AbsFileName(ws, q))}]

\* Workspace::list_files_from_path: the possible results, one per order of read_dir
RECURSIVE ListFilesFromPath(_, _)
RECURSIVE ListFilesFromPaths(_, _)
ListFilesFromPaths(ws, children) ==
    IF children = <<>> THEN {<<>>}
    ELSE {first \o rest : first \in ListFilesFromPath(ws, Head(children)),
                          rest \in ListFilesFromPaths(ws, Tail(children))}

ListFilesFromPath(ws, path) ==
    IF KindIn(ws, path) = "file" /\ ~IsFileIgnored(AbsFileName(ws, path)) THEN {<<path>>}
    ELSE IF KindIn(ws, path) = "dir" /\ ~IsDirIgnored(AbsFileName(ws, path))
    THEN UNION {ListFilesFromPaths(ws, order) : order \in Orders(ReadDir(ws, path))}
    ELSE {<<>>}

\* is_trackable_file, mutated: a directory is trackable as soon as it exists
IsTrackableFileAnyDir(ws, ix, path) ==
    IF KindIn(ws, path) = "file" THEN ~IsPathTracked(ix, path)
    ELSE KindIn(ws, path) = "dir"

\* is_trackable_file: the files of a directory are tried before its
\* directories, which does not change the answer
RECURSIVE IsTrackableFile(_, _, _)
IsTrackableFile(ws, ix, path) ==
    IF KindIn(ws, path) = "file" THEN ~IsPathTracked(ix, path)
    ELSE IF KindIn(ws, path) # "dir" THEN FALSE
    ELSE \E q \in ListDir(ws, path).paths : IsTrackableFile(ws, ix, q)

\* scan_workspace: the strings inserted into the BTreeSet
RECURSIVE ScanWorkspace(_, _, _)
ScanWorkspace(ws, ix, root) ==
    UNION {IF IsPathTracked(ix, q)
           THEN (IF KindIn(ws, q) = "dir" THEN ScanWorkspace(ws, ix, q) ELSE {})
           ELSE IF IsTrackableFile(ws, ix, q)
           THEN {IF KindIn(ws, q) = "dir" THEN q \o <<Sep>> ELSE q}
           ELSE {}
           : q \in ListDir(ws, root).paths}

\* Index::new then Index::load_for_update on the index file
LoadIndexFile(file) ==
    IF file.exists THEN LoadData(NewIndex, file.data).index ELSE NewIndex

\* store_in_database_and_update_index: the Index after the adds
RECURSIVE AddFiles(_, _)
AddFiles(ix, list) ==
    IF list = <<>> THEN ix
    ELSE AddFiles(IndexAdd(ix, Head(list), ObjectOid("blob", BlobPayload(<<1>>)), ApiMetadata),
                  Tail(list))

\* The index files a workspace may start with: none, or one entry
PriorPaths == {wA, wAC, wACE}

InitStatus ==
    /\ \E k \in WsKinds, r \in WsRootNames, prior \in SUBSET PriorPaths :
         /\ Cardinality(prior) <= 1
         /\ files = [workspace |-> [root |-> r, kind |-> k],
                     index |-> IF prior = {} THEN Absent
                               ELSE [exists |-> TRUE,
                                     data |-> IndexWrites(AddFiles(NewIndex,
                                                                   SortedPaths(prior)))]]
    /\ objects = EmptyMap
    /\ proc = [cmd |-> "init", arg |-> <<>>, ok |-> TRUE, out |-> <<>>]
    /\ creator = [t \in Targets |-> 0]

\* The pathspecs and paths handed to the commands and to the Workspace
WsArgs == {<<>>} \cup WsCandidates

\* AddCommand::execute with one pathspec, when no write fails and index.lock is free
AddExecute ==
    /\ \E arg \in WsArgs :
         IF KindIn(files.workspace, arg) = "none"
         THEN /\ proc' = [cmd |-> "add", arg |-> arg, ok |-> FALSE, out |-> <<>>]
              /\ UNCHANGED <<files, objects>>
         ELSE \E list \in ListFilesFromPath(files.workspace, arg) :
                /\ proc' = [cmd |-> "add", arg |-> arg, ok |-> TRUE, out |-> <<>>]
                /\ objects' = IF list = <<>> THEN objects
                              ELSE DatabaseStore(objects, "blob", BlobPayload(<<1>>)).objects
                /\ files' = IF list = <<>> THEN files
                            ELSE [files EXCEPT !.index =
                                    [exists |-> TRUE,
                                     data |-> IndexWrites(AddFiles(LoadIndexFile(files.index),
                                                                   list))]]
    /\ UNCHANGED creator

\* StatusCommand::execute: the lines it prints, without the "?? " they start
\* with (proc.out is what a command prints, or what a call returns)
StatusExecute ==
    /\ proc' = [cmd |-> "status", arg |-> <<>>, ok |-> TRUE,
                out |-> SortedPaths(ScanWorkspace(files.workspace,
                                                  LoadIndexFile(files.index), <<>>))]
    /\ UNCHANGED <<files, objects, creator>>

\* A call of Workspace::list_dir
CallListDir ==
    /\ \E arg \in WsArgs :
         /\ KindIn(files.workspace, arg) # "none"
         /\ LET listed == ListDir(files.workspace, arg)
            IN proc' = [cmd |-> "list_dir", arg |-> arg, ok |-> listed.ok,
                        out |-> SortedPaths(listed.paths)]
    /\ UNCHANGED <<files, objects, creator>>

\* A call of Workspace::list_files_from_path
CallListFilesFromPath ==
    /\ \E arg \in WsArgs :
         /\ KindIn(files.workspace, arg) # "none"
         /\ \E list \in ListFilesFromPath(files.workspace, arg) :
              proc' = [cmd |-> "list_files_from_path", arg |-> arg, ok |-> TRUE, out |-> list]
    /\ UNCHANGED <<files, objects, creator>>

NextStatus == AddExecute \/ StatusExecute \/ CallListDir \/ CallListFilesFromPath

SpecStatus == InitStatus /\ [][NextStatus]_vars

(* ------------------------- the identity string ------------------------- *)

\* i32 division and remainder: the quotient is truncated towards zero
TruncDiv(a, b) == IF a >= 0 THEN a \div b ELSE -((-a) \div b)
TruncRem(a, b) == a - b * TruncDiv(a, b)

DecimalDigit == <<"0", "1", "2", "3", "4", "5", "6", "7", "8", "9">>

\* Display for a number that is not negative
RECURSIVE DecimalDigits(_)
DecimalDigits(n) ==
    IF n < 10 THEN <<DecimalDigit[n + 1]>>
    ELSE DecimalDigits(n \div 10) \o <<DecimalDigit[(n % 10) + 1]>>

\* Zeros in front of the digits up to a width
ZeroPadded(digits, width) ==
    [i \in 1..(width - Len(digits)) |-> "0"] \o digits

\* format!("{:+03}", n): the sign always, zeros after it up to three characters
FormatPlus03(n) ==
    <<IF n < 0 THEN "-" ELSE "+">> \o ZeroPadded(DecimalDigits(IF n < 0 THEN -n ELSE n), 2)

\* format!("{:02}", n): zeros up to two characters, after the sign of a negative number
Format02(n) ==
    IF n < 0 THEN <<"-">> \o ZeroPadded(DecimalDigits(-n), 1)
    ELSE ZeroPadded(DecimalDigits(n), 2)

\* The offsets of local time: up to this many minutes west and east of UTC
MaxWestMinutes == 720
MaxEastMinutes == 840

\* The name, the email and the seconds of the identity of SpecAuthor
IdentHead == <<"A", " ", "<", "a", ">", " ", "0", " ">>

\* Author::to_string, for an offset in seconds
AuthorToString(offset) ==
    IdentHead \o FormatPlus03(TruncDiv(offset, 3600))
              \o Format02(TruncRem(TruncDiv(offset, 60), 60))

InitAuthor ==
    /\ files = [f \in {"index", "index.lock", "HEAD", "HEAD.lock"} |-> Absent]
    /\ objects = EmptyMap
    /\ \E minutes \in (-MaxWestMinutes)..MaxEastMinutes :
         proc = [cmd |-> "new", offset |-> 60 * minutes, out |-> <<>>]
    /\ creator = [t \in Targets |-> 0]

\* Author::to_string on the Author built from the local time
AuthorString ==
    /\ proc.cmd = "new"
    /\ proc' = [proc EXCEPT !.cmd = "to_string", !.out = AuthorToString(proc.offset)]
    /\ UNCHANGED <<files, objects, creator>>

NextAuthor == AuthorString

SpecAuthor == InitAuthor /\ [][NextAuthor]_vars

(* --------------------------- Tree::build alone ------------------------- *)

\* The paths of the entries handed to Tree::build in SpecTree
TreePaths ==
    {<<"a">>, <<"a", "-", "b">>, <<"a", "-", "b", "/", "c">>, <<"a", "/", "b">>,
     <<"a", "/", "b", "/", "c">>, <<"a", "/", "c">>, <<"d", "/", "b">>}

\* The entry lists: any set of the paths, in the order of the index
TreeEntryList(paths) ==
    LET keys == SortedPaths(paths)
    IN [i \in 1..Len(keys) |->
          EntryNew(keys[i], ObjectOid("blob", BlobPayload(<<1>>)), ApiMetadata)]

InitTree ==
    /\ files = [f \in {"index", "index.lock", "HEAD", "HEAD.lock"} |-> Absent]
    /\ objects = EmptyMap
    /\ \E paths \in SUBSET TreePaths :
         proc = [cmd |-> "entries", entries |-> TreeEntryList(paths),
                 tree |-> TreeNew(RootName)]
    /\ creator = [t \in Targets |-> 0]

\* A call of Tree::build
BuildTree ==
    /\ proc.cmd = "entries"
    /\ proc' = [proc EXCEPT !.cmd = "Tree::build", !.tree = TreeBuild(proc.entries)]
    /\ UNCHANGED <<files, objects, creator>>

NextTree == BuildTree

SpecTree == InitTree /\ [][NextTree]_vars

(* ============================== the claims ============================= *)

\* The invocation of p returns in this step (it was not killed)
Returns(p) ==
    /\ proc'[p] # proc[p]
    /\ proc'[p].pc = "idle"
    /\ proc'[p].result.kind # "killed"

\* The processes that own a live Lockfile on the target
Holders(t) ==
    IF t = "index"
    THEN {p \in Procs : proc[p].pc \in {"load", "list", "store", "write", "rename",
                                        "scan", "release"}}
    ELSE {p \in Procs : proc[p].pc \in {"headwrite", "headrename"}}

HoldersNext(t) ==
    IF t = "index"
    THEN {p \in Procs : proc'[p].pc \in {"load", "list", "store", "write", "rename",
                                         "scan", "release"}}
    ELSE {p \in Procs : proc'[p].pc \in {"headwrite", "headrename"}}

\* A whole index file: header, as many entries as the header says, trailer
CompleteIndexData(d) ==
    /\ Len(d) >= 4
    /\ d[1] = SigChunk("DIRC")
    /\ d[2] = U32Chunk(2)
    /\ IsU32(d[3])
    /\ d[3].u32 = Len(d) - 4
    /\ \A i \in 4..(Len(d) - 1) : IsEntry(d[i])
    /\ d[Len(d)] = ShaChunk(SubSeq(d, 1, Len(d) - 1))

\* A whole HEAD: one OID
CompleteHeadData(d) == Len(d) = 1 /\ DOMAIN d[1] = {"sha1"}

CompleteData(t, d) == IF t = "index" THEN CompleteIndexData(d) ELSE CompleteHeadData(d)

C1_State ==
    /\ files["index"].exists =>
         files["index"] \in InitialIndexes \/ CompleteIndexData(files["index"].data)
    /\ files["HEAD"].exists => CompleteHeadData(files["HEAD"].data)

C1_Step ==
    \A t \in Targets :
        files'[t] # files[t] =>
            /\ files[LockPath(t)].exists
            /\ ~files'[LockPath(t)].exists
            /\ files'[t] = files[LockPath(t)]
            /\ CompleteData(t, files'[t].data)
            /\ \E p \in Holders(t) :
                 /\ creator[t] = p
                 /\ files'[t].data = IF t = "index" THEN IndexWrites(proc[p].index)
                                     ELSE <<proc[p].commit.v>>

\* C1: in every reachable state the index file (resp. HEAD) is absent, holds
\* the content it had before, or holds a complete new content; it changes only
\* by the rename of its lock file, which then holds everything the holder of
\* the lock had to write.
C1_AtomicPublish == [](C1_State) /\ [][C1_Step]_vars

\* C1 witness: an add failed in the middle of writing the new index while a
\* complete index written earlier is in place.
C1_Witness ==
    \E p \in Procs :
        /\ proc[p].pc = "idle"
        /\ proc[p].cmd = "add"
        /\ proc[p].result.kind = "write"
        /\ files["index"].exists
        /\ CompleteIndexData(files["index"].data)

\* An invocation of add, commit or status starts in this step
Starts(p) == proc'[p].n = proc[p].n + 1

\* C2: an add, commit or status that starts while index.lock exists returns
\* in that same step with an error and leaves the lock file, the index, HEAD
\* and the object database as they were.
C2_LockedStartFails ==
    [][\A p \in Procs :
         (Starts(p) /\ files["index.lock"].exists) =>
             /\ proc'[p].pc = "idle"
             /\ proc'[p].result.kind =
                  (IF proc'[p].cmd = "add" /\ proc'[p].args = <<>> THEN "usage" ELSE "lock")
             /\ files' = files
             /\ objects' = objects]_vars

\* C2 witness: the lock file left by a killed process made a later add fail.
C2_Witness ==
    \E p, q \in Procs :
        /\ p # q
        /\ proc[q].pc = "idle"
        /\ proc[q].result.kind = "killed"
        /\ creator["index"] = q
        /\ files["index.lock"].exists
        /\ proc[p].pc = "idle"
        /\ proc[p].cmd = "add"
        /\ proc[p].result.kind = "lock"

C3_State ==
    \A t \in Targets :
        /\ Cardinality(Holders(t)) <= 1
        /\ \A p \in Holders(t) : files[LockPath(t)].exists /\ creator[t] = p

C3_Step ==
    \A t \in Targets :
        /\ \A p \in HoldersNext(t) \ Holders(t) : ~files[LockPath(t)].exists
        /\ (files[LockPath(t)].exists /\ ~files'[LockPath(t)].exists) =>
              /\ creator[t] \in Holders(t)
              /\ proc'[creator[t]] # proc[creator[t]]

\* C3: at most one invocation holds index.lock and at most one holds
\* HEAD.lock; a lock is acquired only when its file does not exist, and the
\* file is renamed or deleted only by a step of the invocation that created it.
C3_MutualExclusion == [](C3_State) /\ [][C3_Step]_vars

\* C3 witness: one invocation holds index.lock while the other was refused it.
C3_Witness ==
    \E p, q \in Procs :
        /\ p \in Holders("index")
        /\ q # p
        /\ proc[q].pc = "idle"
        /\ proc[q].result.kind = "lock"
        /\ proc[q].cmd = "commit"

Antichain(S) == \A a, b \in S : ~IsProperAncestor(a, b)

FileEntryPaths(d) == {d[i].entry.path : i \in {j \in 1..Len(d) : IsEntry(d[j])}}

\* C4: after any sequence of Index::add calls the paths of the entries are an
\* antichain under the directory-prefix relation, in memory and in the file
\* written by write_updates.
C4_Antichain ==
    /\ \A p \in Procs : Antichain(DOMAIN proc[p].index.entries)
    /\ Antichain(FileEntryPaths(files["index"].data))

\* C4 witness: a written index holds "a" after entries under "a/" had been
\* added, on an index that was loaded from a written file.
C4_Witness ==
    /\ proc[1].pc = "api"
    /\ proc[1].pos = 1
    /\ proc[1].result.kind = "ok"
    /\ <<"a">> \in FileEntryPaths(files["index"].data)
    /\ <<"a">> \in DOMAIN proc[1].index.parents
    /\ <<"a", "/", "b", "/", "c">> \in UNION {proc[1].index.parents[k] : k \in DOMAIN proc[1].index.parents}

\* C5: when an add returns an error, the index file is what it was when the
\* add started.
C5_FailedAddKeepsIndex ==
    [][\A p \in Procs :
         (Returns(p) /\ proc'[p].cmd = "add" /\ proc'[p].result.kind # "ok") =>
             files'["index"] = proc'[p].startIndex]_vars

\* C5 witness: an add failed after it had stored and staged a file, over an
\* index written earlier.
C5_Witness ==
    \E p \in Procs :
        /\ proc[p].pc = "idle"
        /\ proc[p].cmd = "add"
        /\ proc[p].result.kind \in {"read_file", "store", "metadata"}
        /\ proc[p].staged >= 1
        /\ proc[p].startIndex.exists
        /\ files["index"] = proc[p].startIndex

Unmatched(args) == {i \in 1..Len(args) : ~PathExists(args[i])}

PathspecFailure(p) ==
    /\ \E i \in Unmatched(proc'[p].args) :
         /\ \A j \in Unmatched(proc'[p].args) : i <= j
         /\ proc'[p].result = Res("pathspec", proc'[p].args[i], FALSE)
    /\ proc'[p].stored = 0
    /\ proc'[p].staged = 0
    /\ files'["index"] = proc'[p].startIndex

SubtreeMode == OctalDigits(40000)

RECURSIVE TreePresent(_)
TreePresent(oid) ==
    /\ oid \in DOMAIN objects
    /\ objects[oid].kind = "tree"
    /\ \A i \in 1..Len(objects[oid].payload) :
         objects[oid].payload[i].mode = SubtreeMode =>
             TreePresent(objects[oid].payload[i].oid)

CommitPresent(oid) ==
    /\ oid \in DOMAIN objects
    /\ objects[oid].kind = "commit"
    /\ TreePresent(objects[oid].payload[1].tree)

\* C7: no reference dangles: the OID of every entry of the index file names a
\* stored object; every stored tree has its subtrees stored and every stored
\* commit its root tree; whenever HEAD names a commit, the commit, its root
\* tree and all its subtrees are stored.
C7_NoDanglingReference ==
    /\ \A i \in 1..Len(files["index"].data) :
         IsEntry(files["index"].data[i]) =>
             files["index"].data[i].entry.oid \in DOMAIN objects
    /\ \A oid \in DOMAIN objects :
         /\ objects[oid].kind = "tree" => TreePresent(oid)
         /\ objects[oid].kind = "commit" => CommitPresent(oid)
    /\ files["HEAD"].exists =>
         /\ Len(files["HEAD"].data) = 1
         /\ CommitPresent(files["HEAD"].data[1])

\* C7 witness: HEAD names a commit whose root tree holds a subtree.
C7_Witness ==
    /\ files["HEAD"].exists
    /\ CommitPresent(files["HEAD"].data[1])
    /\ \E i \in 1..Len(objects[objects[files["HEAD"].data[1]].payload[1].tree].payload) :
         objects[objects[files["HEAD"].data[1]].payload[1].tree].payload[i].mode = SubtreeMode

\* C8 as stated: a commit that did not complete successfully has not renamed
\* HEAD.lock onto HEAD.
C8_FailedCommitKeepsHead ==
    \A p \in Procs :
        (proc[p].pc = "idle" /\ proc[p].cmd = "commit" /\ proc[p].result.kind # "ok") =>
            ~proc[p].headRenamed

\* Another process takes index.lock or replaces the index in this step
Intrudes(p) ==
    \/ \E q \in Procs \ {p} : q \in HoldersNext("index") \ Holders("index")
    \/ /\ files'["index"] # files["index"]
       /\ proc'[p] = proc[p]

\* C9 as stated: from the acquisition of index.lock until the invocation
\* terminates no other invocation acquires index.lock or replaces the index.
C9_Original ==
    [][\A p \in Procs : proc[p].pc # "idle" => ~Intrudes(p)]_vars

\* C9 amended: while an add or a status runs, and while a commit has not yet
\* returned from load_and_get_entries, no other invocation acquires index.lock
\* or replaces the index file.
C9_ExclusiveWhileHeld ==
    [][\A p \in Procs : p \in Holders("index") => ~Intrudes(p)]_vars

\* C9 witness: a status was refused index.lock while an add was writing the
\* new index through it.
C9_Witness ==
    \E p, q \in Procs :
        /\ proc[p].pc = "write"
        /\ proc[p].pos >= 1
        /\ q # p
        /\ proc[q].pc = "idle"
        /\ proc[q].cmd = "status"
        /\ proc[q].result.kind = "lock"

\* C10 as stated: when an invocation that acquired a lock returns, the lock
\* file it created no longer exists.
C10_LockGoneOnReturn ==
    [][\A p \in Procs : \A t \in Targets :
         (Returns(p) /\ proc[p].pc # "idle") =>
             ~(files'[LockPath(t)].exists /\ creator'[t] = p)]_vars

\* This step is a step of the invocation of cmd that p runs
StepOf(p, cmd) == proc'[p] # proc[p] /\ proc'[p].cmd = cmd

\* C11: no step of a commit or of a status changes the index file, whatever
\* the outcome of the step; no step of a status changes HEAD or the object
\* database.
C11_CommitStatusKeepIndex ==
    [][\A p \in Procs :
         /\ (StepOf(p, "commit") \/ StepOf(p, "status")) =>
                files'["index"] = files["index"]
         /\ StepOf(p, "status") =>
                (files'["HEAD"] = files["HEAD"] /\ objects' = objects)]_vars

\* C11 witness: a commit has succeeded over an index file that an add wrote.
C11_Witness ==
    \E p \in Procs :
        /\ proc[p].pc = "idle"
        /\ proc[p].cmd = "commit"
        /\ proc[p].result = Ok
        /\ proc[p].headRenamed
        /\ files["index"].exists
        /\ \E i \in 1..Len(files["index"].data) : IsEntry(files["index"].data[i])

\* Every digit of the OID is one that format!("{:x}") produces
IsLowerHex(oid) == \A i \in 1..Len(oid) : \E k \in 1..16 : LowerHex[k] = oid[i]

\* C12 as stated: after write_updates, a fresh Index that loads the written
\* file yields the entries that were written, in the same order, each with the
\* same path, OID, flags and metadata.
C12_Original ==
    (proc[1].pc = "loaded" /\ proc[1].pos = 1) =>
        IndexEntries(proc[1].index) = proc[1].todo

\* C12 amended: the same, for the index states whose OIDs are written with
\* lower-case hexadecimal digits.
C12_RoundTripLowerHex ==
    (/\ proc[1].pc = "loaded"
     /\ proc[1].pos = 1
     /\ \A i \in 1..Len(proc[1].todo) : IsLowerHex(proc[1].todo[i].oid)) =>
        IndexEntries(proc[1].index) = proc[1].todo

\* C12 witness: a written file with two entries, one of them in a directory,
\* has been loaded by a fresh Index that yields the same two entries.
C12_Witness ==
    /\ proc[1].pc = "loaded"
    /\ proc[1].pos = 1
    /\ Len(proc[1].todo) = 2
    /\ \A i \in 1..2 : IsLowerHex(proc[1].todo[i].oid)
    /\ IndexEntries(proc[1].index) = proc[1].todo
    /\ <<"a">> \in DOMAIN proc[1].index.parents

StrictlyAscending(paths) ==
    \A i \in 1..(Len(paths) - 1) : StrLess(paths[i], paths[i + 1])

\* The paths of the entries of an index file, in file order
FileEntryPathSeq(d) ==
    LET es == SelectSeq(d, IsEntry) IN [i \in 1..Len(es) |-> es[i].entry.path]

\* C13: the entries an Index yields are in strictly ascending byte order of
\* their paths (hence no two share a path) and are exactly the entries it
\* holds, so that the sequence is determined by the final set of entries; the
\* entries of the file written by write_updates are in the same strict order.
C13_AscendingPaths ==
    /\ \A p \in Procs :
         LET es == IndexEntries(proc[p].index)
         IN /\ StrictlyAscending([i \in 1..Len(es) |-> es[i].path])
            /\ Len(es) = Cardinality(DOMAIN proc[p].index.entries)
            /\ \A i \in 1..Len(es) : es[i] = proc[p].index.entries[es[i].path]
    /\ StrictlyAscending(FileEntryPathSeq(files["index"].data))

\* C13 witness: "a/b", "a/c" and "a-b" are held and were written, and "a-b"
\* comes first although "a" is a prefix of all three.
C13_Witness ==
    /\ proc[1].pc = "api"
    /\ proc[1].pos = 1
    /\ FileEntryPathSeq(files["index"].data)
         = <<<<"a", "-", "b">>, <<"a", "/", "b">>, <<"a", "/", "c">>>>
    /\ [i \in 1..Len(IndexEntries(proc[1].index)) |-> IndexEntries(proc[1].index)[i].path]
         = FileEntryPathSeq(files["index"].data)

\* The buffer Database::store is to build for the object p stores: the type,
\* the decimal length of the payload and the payload
BufferOf(p) ==
    [kind |-> proc[p].kind, len |-> Len(proc[p].payload), payload |-> proc[p].payload]

\* The object path of the OID holds a file written whole that inflates to the buffer
HoldsBuffer(oid, buffer) ==
    /\ oid \in DOMAIN objects
    /\ objects[oid].whole
    /\ ZlibDecode(objects[oid].data) = buffer

\* C14: the OID set on an object is the SHA-1 of its type, payload length and
\* payload; once its store has succeeded the file at the path of that OID
\* exists and inflates to exactly that buffer; and two objects of different
\* type or payload never get the same path.
C14_ContentAddressed ==
    /\ \A p \in Procs : proc[p].n > 0 =>
         /\ proc[p].oid = Sha1Hex(BufferOf(p))
         /\ (proc[p].pc = "idle" /\ proc[p].result = "ok") => HoldsBuffer(proc[p].oid, BufferOf(p))
    /\ \A a, b \in DbObjects :
         (/\ ObjectOid(a.kind, a.payload) = ObjectOid(b.kind, b.payload)
          /\ OidPrefix(ObjectOid(a.kind, a.payload)) = OidPrefix(ObjectOid(b.kind, b.payload)))
            => a = b

\* C14 witness: a blob and a commit with the same payload are both stored, in
\* different files, and the store of the commit was the last to succeed.
C14_Witness ==
    /\ proc[1].pc = "idle"
    /\ proc[1].result = "ok"
    /\ proc[1].kind = "commit"
    /\ ~proc[1].existed
    /\ HoldsBuffer(proc[1].oid, BufferOf(1))
    /\ HoldsBuffer(ObjectOid("blob", proc[1].payload), ObjectBuffer("blob", proc[1].payload))

\* C15: a store of an object whose file exists when the store starts changes
\* nothing on disk (no object file, no directory, no temporary file) in any of
\* its steps, and returns success with the OID under which the file exists.
C15_SecondStoreIdempotent ==
    [][\A p \in Procs :
         (proc'[p] # proc[p] /\ proc[p].pc # "idle" /\ proc[p].existed) =>
             /\ files' = files
             /\ objects' = objects
             /\ proc'[p].oid = proc[p].oid
             /\ proc'[p].oid \in DOMAIN objects
             /\ proc'[p].pc = "idle" => proc'[p].result = "ok"]_vars

\* C15 witness: the second store of an object has returned success.
C15_Witness ==
    \E p \in Procs :
        /\ proc[p].pc = "idle"
        /\ proc[p].existed
        /\ proc[p].result = "ok"
        /\ HoldsBuffer(proc[p].oid, BufferOf(p))

\* C16 as stated: under every interleaving of stores, every file at an object
\* path is whole and inflates to the buffer whose SHA-1 is that path, and an
\* object file that exists is never given another content.
C16_ObjectFilesWhole ==
    [][/\ \A oid \in DOMAIN objects' :
            objects'[oid].whole /\ Sha1Hex(ZlibDecode(objects'[oid].data)) = oid
       /\ \A oid \in DOMAIN objects :
            oid \in DOMAIN objects' /\ objects'[oid] = objects[oid]]_vars

\* C17: read_head answers absent exactly when HEAD does not exist and
\* otherwise the whole content of HEAD; when update_head has succeeded,
\* read_head answers exactly the OID that was passed, so that HEAD is the OID of
\* the new commit; and the parent written into a commit is exactly what
\* read_head answered.
C17_HeadRoundTrip ==
    [][\A p \in Procs :
         /\ (proc[p].pc = "head" /\ proc'[p].pc = "commit") =>
                /\ proc'[p].parent.some <=> files["HEAD"].exists
                /\ proc'[p].parent.v = files["HEAD"].data
         /\ (proc[p].pc = "headrename" /\ proc'[p].headRenamed) =>
                /\ ReadHead(files').some
                /\ ReadHead(files').v = <<proc[p].commit.v>>
                /\ objects[proc[p].commit.v].kind = "commit"
         /\ (proc[p].pc = "commit" /\ proc'[p].pc = "headlock") =>
                objects'[proc[p].commit.v].payload[1].parent = proc[p].parent]_vars

\* C17 witness: a second commit has succeeded; HEAD is its OID and its parent
\* is the OID of the first commit, which is stored and has no parent.
C17_Witness ==
    /\ files["HEAD"].exists
    /\ Len(files["HEAD"].data) = 1
    /\ files["HEAD"].data[1] \in DOMAIN objects
    /\ LET this == objects[files["HEAD"].data[1]].payload[1]
       IN /\ this.parent.some
          /\ Len(this.parent.v) = 1
          /\ this.parent.v[1] \in DOMAIN objects
          /\ objects[this.parent.v[1]].kind = "commit"
          /\ ~objects[this.parent.v[1]].payload[1].parent.some
    /\ \E p \in Procs : proc[p].pc = "idle" /\ proc[p].cmd = "commit" /\ proc[p].result = Ok
                        /\ proc[p].headRenamed

\* The end of the entries of an index file whose header and entries can be
\* read: 12 bytes of header, then as many entries as the header counts
EntriesEnd(data) ==
    LoadEntriesBytes(NewIndex, data, 12, ReadHeaderBytes(data).count).offset

\* Header and entries can be read and exactly 20 bytes follow the last entry
WellFormed(data) ==
    /\ ReadHeaderBytes(data).err = ""
    /\ LoadEntriesBytes(NewIndex, data, 12, ReadHeaderBytes(data).count).err = ""
    /\ Len(data) = EntriesEnd(data) + 20

\* The 20 bytes that follow the last entry are the digest of the bytes before them
TrailerMatches(data) ==
    SubSeq(data, EntriesEnd(data) + 1, EntriesEnd(data) + 20)
        = Sha1Digest(SubSeq(data, 1, EntriesEnd(data)))

\* C18: a file written by write_updates ends with the 20-byte SHA-1 of all the
\* bytes before them; and loading a well-formed index file whose 20 bytes
\* after the last entry are not the SHA-1 of the bytes before them fails with
\* "fatal: index file corrupt".
C18_TrailerChecked ==
    /\ proc[1].pc = "written" =>
         /\ WellFormed(files["index"].data)
         /\ TrailerMatches(files["index"].data)
    /\ (/\ proc[1].pc \in {"loaded", "failed"}
        /\ WellFormed(files["index"].data)
        /\ ~TrailerMatches(files["index"].data)) =>
           (proc[1].pc = "failed" /\ proc[1].result.kind = ErrCorrupt)

\* C18 witness: a byte of the trailer of a written file with two entries was
\* changed, and the load failed with the corrupt-index error.
C18_Witness ==
    /\ proc[1].pc = "failed"
    /\ proc[1].pos = 3
    /\ Len(proc[1].todo) = 2
    /\ WellFormed(files["index"].data)
    /\ ~TrailerMatches(files["index"].data)
    /\ files["index"].data[16] = 1
    /\ proc[1].result.kind = ErrCorrupt

\* The length of the file write_updates wrote for the entries kept in todo
WrittenLength(p) ==
    32 + Len(Concat([i \in 1..Len(proc[p].todo) |-> EntryGetDataBytes(proc[p].todo[i])]))

\* C19: loading a proper prefix of a file written by write_updates, of any
\* length from 0 to one byte less than the file, fails with "fatal: index was
\* shorter than expected".
C19_PrefixTooShort ==
    (proc[1].pc \in {"loaded", "failed"} /\ proc[1].pos = 2) =>
        /\ Len(files["index"].data) < WrittenLength(1)
        /\ proc[1].pc = "failed"
        /\ proc[1].result.kind = ErrTooShort

\* C19 witness: a written file with two entries lost its last 20 bytes, so
\* that what is left ends with the last entry, and the load failed with the
\* too-short error.
C19_Witness ==
    /\ proc[1].pc = "failed"
    /\ proc[1].pos = 2
    /\ Len(proc[1].todo) = 2
    /\ Len(files["index"].data) = WrittenLength(1) - 20
    /\ proc[1].result.kind = ErrTooShort

\* C20: the serialized entry of a path of n >= 1 bytes is as long as the
\* smallest multiple of 8 that is at least 63 + n, holds the path from byte 63
\* on, ends with 1 to 8 NUL bytes after the path, and its flags, the two
\* bytes before the path, are n when n is below 4095 and 4095 otherwise.
C20_EntryLayout ==
    proc[1].pc \in {"data", "read"} =>
        LET n == proc[1].pos
            d == files["index.lock"].data
        IN /\ n >= 1
           /\ Len(d) % 8 = 0
           /\ Len(d) >= 63 + n
           /\ Len(d) - 8 < 63 + n
           /\ SubSeq(d, 63, 62 + n) = PathBytes(proc[1].todo[1].path)
           /\ Len(d) - (62 + n) \in 1..8
           /\ \A i \in (63 + n)..Len(d) : d[i] = 0
           /\ d[61] * 256 + d[62] = (IF n < 4095 THEN n ELSE 4095)

\* C20 witness: an entry whose path has 4096 bytes was serialized in 4160
\* bytes with flags 4095 and two NUL bytes, and read_entry found the path and
\* the end of the entry again.
C20_Witness ==
    /\ proc[1].pc = "read"
    /\ proc[1].pos = 4096
    /\ Len(files["index.lock"].data) = 4160
    /\ proc[1].result.kind = "ok"
    /\ proc[1].n = Len(files["index.lock"].data)
    /\ proc[1].stores[1].path = proc[1].todo[1].path
    /\ proc[1].stores[1].flags = 4095

\* The digits of "100644" and "100755", and of "40000"
LeafModeStrings == {<<1, 0, 0, 6, 4, 4>>, <<1, 0, 0, 7, 5, 5>>}
SubtreeModeString == <<4, 0, 0, 0, 0>>

\* C21 as stated: in the payload of every stored tree, an entry that names a
\* subtree carries the mode string "40000" and an entry that names a blob
\* carries "100644" or "100755".
C21_TreeModeStrings ==
    \A oid \in DOMAIN objects :
        objects[oid].kind = "tree" =>
            \A i \in 1..Len(objects[oid].payload) :
                LET line == objects[oid].payload[i]
                IN IF line.oid \in DOMAIN objects /\ objects[line.oid].kind = "tree"
                   THEN line.mode = SubtreeModeString
                   ELSE line.mode \in LeafModeStrings


\* The paths of the entries of the index file
EntryPathsOf(file) == DOMAIN LoadIndexFile(file).entries

\* P is an entry, or an entry lies strictly under P
TrackedBy(paths, P) == P \in paths \/ \E e \in paths : IsProperAncestor(P, e)

\* A name that an ignore rule matches
NameIgnored(name) == IsDirIgnored(name) \/ IsFileIgnored(name)

\* Neither P nor a directory above it, below the root, bears an ignored name
NonIgnoredPath(P) ==
    \A q \in Range(PathAncestors(P)) : q # <<>> => ~NameIgnored(FileName(q))

\* The lines the claim expects of status
ExpectedUntracked(ws, paths) ==
    {IF KindIn(ws, P) = "dir" THEN P \o <<Sep>> ELSE P :
       P \in {q \in DOMAIN ws.kind :
                /\ KindIn(ws, q) # "none"
                /\ NonIgnoredPath(q)
                /\ ~TrackedBy(paths, q)
                /\ \A anc \in Range(PathAncestors(q)) \ {q, <<>>} :
                     TrackedBy(paths, anc) /\ KindIn(ws, anc) = "dir"
                /\ \/ KindIn(ws, q) = "file"
                   \/ \E f \in DOMAIN ws.kind :
                        /\ KindIn(ws, f) = "file"
                        /\ IsProperAncestor(q, f)
                        /\ NonIgnoredPath(f)}}

PolicyIgnores(ws, q) ==
    \/ KindIn(ws, q) = "dir" /\ IsDirIgnored(FileName(q))
    \/ KindIn(ws, q) = "file" /\ IsFileIgnored(FileName(q))

\* What list_files_from_path returns: no ignored file, no file inside an
\* ignored directory
ListFilesHonoursPolicy ==
    proc.cmd = "list_files_from_path" =>
         \A i \in 1..Len(proc.out) :
            /\ ~IsFileIgnored(FileName(proc.out[i]))
            /\ \A anc \in Range(PathAncestors(proc.out[i])) \ {proc.out[i], <<>>} :
                 ~IsDirIgnored(FileName(anc))

\* What list_dir returns: every child but the ones the policy names
ListDirHonoursPolicy ==
    (proc.cmd = "list_dir" /\ proc.ok) =>
         Range(proc.out) = {q \in ReadDir(files.workspace, proc.arg) :
                              ~PolicyIgnores(files.workspace, q)}

\* C23: list_files_from_path never returns a file that lies inside a
\* directory named .git or target, that is named .DS_Store or that has the
\* extension iml, whatever existing path it is given; list_dir returns the
\* immediate children of its directory except exactly the directories named
\* .git or target and the files named .DS_Store or with the extension iml.
C23_IgnoreRules == ListFilesHonoursPolicy /\ ListDirHonoursPolicy


\* C30: a status that runs right after a successful add of the workspace
\* root prints nothing, whatever the workspace and the index before the add.
C30_AddRootThenStatusClean ==
    [][(proc.cmd = "add" /\ proc.arg = <<>> /\ proc.ok /\ proc'.cmd = "status")
          => proc'.out = <<>>]_vars

\* C30 for the workspaces whose directory does not bear an ignored name
C30_UnlessRootIgnored ==
    [][(/\ proc.cmd = "add" /\ proc.arg = <<>> /\ proc.ok /\ proc'.cmd = "status"
        /\ ~IsDirIgnored(files.workspace.root))
          => proc'.out = <<>>]_vars


\* The offset as git writes it: a sign, two digits of hours, two of minutes
OffsetHHMM(offset) ==
    LET minutes == (IF offset < 0 THEN -offset ELSE offset) \div 60
    IN <<IF offset < 0 THEN "-" ELSE "+">>
         \o ZeroPadded(DecimalDigits(minutes \div 60), 2)
         \o ZeroPadded(DecimalDigits(minutes % 60), 2)

\* C24: the identity string ends with a space and the offset of local time
\* written as a sign and four digits, hours then minutes, for every offset of
\* whole minutes from -12:00 to +14:00.
C24_OffsetSuffix ==
    proc.cmd = "to_string" => proc.out = IdentHead \o OffsetHHMM(proc.offset)

\* C24 for the offsets that are not negative or are whole hours
C24_EastOrWholeHours ==
    (proc.cmd = "to_string" /\ (proc.offset >= 0 \/ proc.offset % 3600 = 0))
        => proc.out = IdentHead \o OffsetHHMM(proc.offset)


\* A step of SpecIndex that is a call of Index::add
IsApiAdd ==
    /\ proc[1].pc = "api"
    /\ proc'[1].pc = "api"
    /\ proc'[1].cmd = "Index::add"

\* The entry map the claim expects after add(path, oid, metadata)
AddEffect(entries, path, oid) ==
    LET kept == {k \in DOMAIN entries :
                   ~IsProperAncestor(k, path) /\ ~IsProperAncestor(path, k) /\ k # path}
    IN [k \in kept \cup {path} |->
          IF k = path THEN EntryNew(path, oid, ApiMetadata) ELSE entries[k]]

\* C25: a call of Index::add removes the entries at the proper ancestors of
\* the path and the entries strictly under it, maps the path to the new entry
\* and leaves every other entry as it was.
C25_AddEffect ==
    [][IsApiAdd =>
         \E path \in PathUniverse, oid \in ApiOids :
            proc'[1].index.entries = AddEffect(proc[1].index.entries, path, oid)]_vars

\* C25 witness: a/b/c was added (parents remembers it under a/b), an add of a
\* has since evicted what lay under a, and a-b is still there
C25_Witness ==
    /\ proc[1].pc = "api"
    /\ DOMAIN proc[1].index.entries = {<<"a">>, <<"a", "-", "b">>}
    /\ <<"a", "/", "b">> \in DOMAIN proc[1].index.parents
    /\ <<"a", "/", "b", "/", "c">> \in proc[1].index.parents[<<"a", "/", "b">>]


\* C26: is_path_tracked(P) is true exactly when P is the path of a current
\* entry or a current entry lies strictly under P, after any adds.
C26_TrackedIffEntryBelow ==
    \A P \in PathUniverse :
        proc[1].pc = "api" =>
            (IsPathTracked(proc[1].index, P)
                <=> TrackedBy(DOMAIN proc[1].index.entries, P))

\* C26, one direction: a path that is an entry or has an entry under it is tracked
C26_EntriesAreTracked ==
    \A P \in PathUniverse :
        (proc[1].pc = "api" /\ TrackedBy(DOMAIN proc[1].index.entries, P))
            => IsPathTracked(proc[1].index, P)


\* A step of SpecIndex that is a call of Index::write_updates
IsApiWriteUpdates ==
    /\ proc[1].pc = "api"
    /\ proc'[1].pc = "api"
    /\ proc'[1].cmd = "Index::write_updates"

\* The Index holds its lock, and an add was made since it was built or loaded
LockedAndAdded == files["index.lock"].exists /\ proc[1].staged = 1

\* C27: write_updates writes the index file and returns true only when the
\* Index still holds its lock and an add has happened since construction or
\* load; otherwise it returns false and leaves the index file and the lock
\* file as they are.
C27_WriteOnlyWhenLockedAndAdded ==
    [][IsApiWriteUpdates =>
         IF LockedAndAdded
         THEN /\ proc'[1].returned
              /\ files'["index"] = [exists |-> TRUE, data |-> IndexWrites(proc[1].index)]
              /\ ~files'["index.lock"].exists
         ELSE /\ ~proc'[1].returned
              /\ files' = files]_vars

\* C27 witness: a second write_updates after a successful one has returned
\* false; the lock is gone and the written index is in place
C27_Witness ==
    /\ proc[1].pc = "api"
    /\ proc[1].cmd = "Index::write_updates"
    /\ ~proc[1].returned
    /\ proc[1].staged = 1
    /\ proc[1].pos = 1
    /\ files["index"].exists
    /\ ~files["index.lock"].exists

\* C27 witness: write_updates without an add has returned false and there is
\* no index file
C27_WitnessNoAdd ==
    /\ proc[1].pc = "api"
    /\ proc[1].cmd = "Index::write_updates"
    /\ ~proc[1].returned
    /\ proc[1].staged = 0
    /\ files["index.lock"].exists
    /\ ~files["index"].exists


JoinPath(dir, name) == IF dir = <<>> THEN name ELSE dir \o <<Sep>> \o name

\* The leaves of a tree from first to last, each with the directory of the
\* subtree that holds it
RECURSIVE TreeLeaves(_, _)
RECURSIVE LeavesOver(_, _, _)
LeavesOver(nodes, i, dir) ==
    IF i > Len(nodes) THEN <<>>
    ELSE (IF nodes[i].kind = "leaf" THEN <<[dir |-> dir, entry |-> nodes[i].entry]>>
          ELSE TreeLeaves(nodes[i], JoinPath(dir, nodes[i].name)))
         \o LeavesOver(nodes, i + 1, dir)

TreeLeaves(tree, dir) == LeavesOver(tree.entries, 1, dir)

\* The directories of the subtrees of a tree, from first to last
RECURSIVE TreeDirs(_, _)
RECURSIVE DirsOver(_, _, _)
DirsOver(nodes, i, dir) ==
    IF i > Len(nodes) THEN <<>>
    ELSE (IF nodes[i].kind = "leaf" THEN <<>>
          ELSE <<JoinPath(dir, nodes[i].name)>>
                 \o TreeDirs(nodes[i], JoinPath(dir, nodes[i].name)))
         \o DirsOver(nodes, i + 1, dir)

TreeDirs(tree, dir) == DirsOver(tree.entries, 1, dir)

NoDuplicates(seq) == \A i, j \in 1..Len(seq) : seq[i] = seq[j] => i = j

\* C28: for a sorted list of entries whose paths are an antichain, Tree::build
\* does not reach add_entry of a leaf, makes one subtree per directory, puts
\* each entry once, as a leaf of the subtree of its parent directory, and
\* keeps the entries in the order of the list.
C28_TreeShape ==
    (proc.cmd = "Tree::build"
        /\ Antichain({proc.entries[i].path : i \in 1..Len(proc.entries)})) =>
       LET leaves == TreeLeaves(proc.tree, <<>>)
           dirs == TreeDirs(proc.tree, <<>>)
       IN /\ ~proc.tree.panicked
          /\ Len(leaves) = Len(proc.entries)
          /\ \A i \in 1..Len(leaves) :
                /\ leaves[i].entry = proc.entries[i]
                /\ leaves[i].dir = PathParent(proc.entries[i].path)
          /\ NoDuplicates(dirs)
          /\ Range(dirs) = UNION {ProperAncestors(proc.entries[i].path) \ {<<>>} :
                                    i \in 1..Len(proc.entries)}

\* C28 witness: a-b/c, a/b/c, a/c and d/b were built into a tree: the subtree
\* a was reused for a/c after its own subtree a/b
C28_Witness ==
    /\ proc.cmd = "Tree::build"
    /\ Len(proc.entries) = 4
    /\ TreeDirs(proc.tree, <<>>) =
         <<<<"a", "-", "b">>, <<"a">>, <<"a", "/", "b">>, <<"d">>>>

\* Tree::build reaches add_entry of a leaf when the paths are not an antichain
TreeBuildPanics == proc.cmd = "Tree::build" /\ proc.tree.panicked


\* The step in which the commit of p renames HEAD.lock over HEAD and returns Ok
CommitSucceeds(p) ==
    /\ proc[p].pc = "headrename"
    /\ proc'[p].pc = "idle"
    /\ proc'[p].result = Ok

\* HEAD names a commit whose invocation succeeded: its message has a first line
HeadOfSuccessfulCommit(fs, objs) ==
    /\ ReadHead(fs).some
    /\ ReadHead(fs).v[1] \in DOMAIN objs
    /\ FirstLineExists(objs[ReadHead(fs).v[1]].payload[1].message)

\* C29: when a commit succeeds while HEAD names an earlier successful commit,
\* that commit is the parent it recorded (or the very same commit object), so
\* the earlier commit stays reachable from HEAD.
C29_CommitsSerialized ==
    [][\A p \in Procs :
         (CommitSucceeds(p) /\ HeadOfSuccessfulCommit(files, objects)) =>
            \/ proc[p].parent = ReadHead(files)
            \/ proc[p].commit.v = ReadHead(files).v[1]]_vars

\* C29 when no other commit replaced HEAD between read_head and the rename
C29_SequentialCommits ==
    [][\A p \in Procs :
         (CommitSucceeds(p) /\ HeadOfSuccessfulCommit(files, objects)
            /\ \A q \in Procs \ {p} : proc[q].cmd # "commit") =>
            proc[p].parent = ReadHead(files)]_vars

====
